---- MODULE Spec2Model ----
(***************************************************************************)
(* A model of the Kinetica Python protocol extension (src/protocol):       *)
(* the Avro primitives of avro.c, the date/time packing of dt.c and dt.h,  *)
(* and the Record / RecordType codec of record.c.                          *)
(*                                                                         *)
(* A buffer is a sequence of bytes (0..255).  A cursor is an offset into   *)
(* it: the byte under the cursor pos is buf[pos + 1], and max is the       *)
(* offset one past the last usable byte.                                   *)
(***************************************************************************)
EXTENDS Integers, Sequences, FiniteSets, TLC

(* ------------------------------------------------------------------ *)
(* avro.h: AvroErrorCode                                               *)
(* ------------------------------------------------------------------ *)
ERR_NONE == "ERR_NONE"
ERR_OOM == "ERR_OOM"
ERR_EOF == "ERR_EOF"
ERR_OVERFLOW == "ERR_OVERFLOW"

(* ------------------------------------------------------------------ *)
(* 64-bit words.  A PY_LONG_LONG / uint64_t is kept as ten base-128    *)
(* limbs, least significant first, in two's complement; limb 10 holds  *)
(* bit 63 alone.  This is the grouping the varint loops of avro.c use. *)
(* ------------------------------------------------------------------ *)
RECURSIVE NatLimbs(_, _)
NatLimbs(m, k) ==
    IF k = 0 THEN << >> ELSE <<m % 128>> \o NatLimbs(m \div 128, k - 1)

I64Not(w) == [k \in 1..10 |-> IF k = 10 THEN 1 - w[k] ELSE 127 - w[k]]

I64FromInt(i) == IF i >= 0 THEN NatLimbs(i, 10) ELSE I64Not(NatLimbs(-(i + 1), 10))

I64Neg(w) == w[10] = 1

I64Mag(w) == w[1] + 128 * w[2] + 16384 * w[3] + 2097152 * w[4] + 268435456 * w[5]

(* TRUE when the word is within the 32-bit range *)
I64Small(w) ==
    LET p == IF I64Neg(w) THEN I64Not(w) ELSE w
    IN  p[5] < 8 /\ \A k \in 6..10 : p[k] = 0

I64ToInt(w) == IF I64Neg(w) THEN -I64Mag(I64Not(w)) - 1 ELSE I64Mag(w)

(* n << 1 on 64 bits *)
I64Shl1(w) ==
    [k \in 1..10 |->
        LET c == IF k = 1 THEN 0 ELSE w[k - 1] \div 64
        IN  IF k = 10 THEN (2 * w[k] + c) % 2 ELSE (2 * w[k] + c) % 128]

(* n >> 1 on an unsigned 64-bit word *)
I64Shr1(w) ==
    [k \in 1..10 |-> IF k = 10 THEN 0 ELSE (w[k] \div 2) + 64 * (w[k + 1] % 2)]

(* n >> 7 on an unsigned 64-bit word *)
I64Shr7(w) == Tail(w) \o <<0>>

(* n & ~0x7F is non-zero *)
I64HighBits(w) == \E k \in 2..10 : w[k] # 0

(* (l << 1) ^ (l >> 63) *)
ZigZag(l) == IF I64Neg(l) THEN I64Not(I64Shl1(l)) ELSE I64Shl1(l)

(* (value >> 1) ^ -(value & 1) *)
UnZigZag(v) == IF v[1] % 2 = 1 THEN I64Not(I64Shr1(v)) ELSE I64Shr1(v)

I64Zero == I64FromInt(0)

(* ------------------------------------------------------------------ *)
(* avro.c: reading.  A read returns [err, pos, val]; err # ERR_NONE    *)
(* leaves val meaningless.                                             *)
(* ------------------------------------------------------------------ *)
Min(a, b) == IF a < b THEN a ELSE b

SubSeqFrom(buf, pos, len) == [k \in 1..len |-> buf[pos + k]]

RECURSIVE read_long_loop(_, _, _, _, _)
read_long_loop(buf, pos, max_offset, offset, value) ==
    IF offset = max_offset
    THEN [err |-> IF offset = 10 THEN ERR_OVERFLOW ELSE ERR_EOF,
          pos |-> pos, val |-> I64Zero]
    ELSE LET b == buf[pos + offset + 1]
             bits == IF offset = 9 THEN (b % 128) % 2 ELSE b % 128
             v2 == [value EXCEPT ![offset + 1] = bits]
         IN  IF b >= 128
             THEN read_long_loop(buf, pos, max_offset, offset + 1, v2)
             ELSE [err |-> ERR_NONE, pos |-> pos + offset + 1,
                   val |-> UnZigZag(v2)]

read_long(buf, pos, max) ==
    read_long_loop(buf, pos, Min(max - pos, 10), 0, I64Zero)

(* read_int accumulates into a uint32_t: of the fifth byte only the low *)
(* four bits survive.  value is kept as its five 7-bit groups.          *)
RECURSIVE read_int_loop(_, _, _, _, _)
read_int_loop(buf, pos, max_offset, offset, value) ==
    IF offset = max_offset
    THEN [err |-> IF offset = 5 THEN ERR_OVERFLOW ELSE ERR_EOF,
          pos |-> pos, val |-> 0]
    ELSE LET b == buf[pos + offset + 1]
             bits == IF offset = 4 THEN (b % 128) % 16 ELSE b % 128
             v2 == [value EXCEPT ![offset + 1] = bits]
         IN  IF b >= 128
             THEN read_int_loop(buf, pos, max_offset, offset + 1, v2)
             ELSE LET m == (v2[1] \div 2) + 64 * v2[2] + 8192 * v2[3]
                           + 1048576 * v2[4] + 134217728 * v2[5]
                  IN  [err |-> ERR_NONE, pos |-> pos + offset + 1,
                       val |-> IF v2[1] % 2 = 1 THEN -m - 1 ELSE m]

read_int(buf, pos, max) ==
    read_int_loop(buf, pos, Min(max - pos, 5), 0, <<0, 0, 0, 0, 0>>)

(* sizeof(Py_ssize_t) = sizeof(PY_LONG_LONG): the range test is skipped *)
read_size(buf, pos, max) == read_long(buf, pos, max)

(* read_bytes_len reporting a length that runs past the buffer as      *)
(* ERR_OVERFLOW                                                        *)
read_bytes_len_overflow(buf, pos, max) ==
    LET Check(r) ==
            IF r.err # ERR_NONE THEN [err |-> r.err, pos |-> r.pos, val |-> 0]
            ELSE IF I64Neg(r.val) THEN [err |-> ERR_OVERFLOW, pos |-> r.pos, val |-> 0]
            ELSE IF ~I64Small(r.val) \/ r.pos + I64ToInt(r.val) > max
                 THEN [err |-> ERR_OVERFLOW, pos |-> r.pos, val |-> 0]
            ELSE [err |-> ERR_NONE, pos |-> r.pos, val |-> I64ToInt(r.val)]
    IN  Check(read_size(buf, pos, max))

(* val is the length as an integer; the cursor stays advanced past the  *)
(* length when the length itself is rejected                            *)
read_bytes_len(buf, pos, max) ==
    LET Check(r) ==
            IF r.err # ERR_NONE THEN [err |-> r.err, pos |-> r.pos, val |-> 0]
            ELSE IF I64Neg(r.val) THEN [err |-> ERR_OVERFLOW, pos |-> r.pos, val |-> 0]
            ELSE IF ~I64Small(r.val) \/ r.pos + I64ToInt(r.val) > max
                 THEN [err |-> ERR_EOF, pos |-> r.pos, val |-> 0]
            ELSE [err |-> ERR_NONE, pos |-> r.pos, val |-> I64ToInt(r.val)]
    IN  Check(read_size(buf, pos, max))

IsDigit(b) == b >= 48 /\ b <= 57

RECURSIVE read_digits_loop(_, _, _, _, _, _)
read_digits_loop(buf, pos, max, max_digits, temp_digits, temp_i) ==
    IF temp_digits <= max_digits /\ pos < max /\ IsDigit(buf[pos + 1])
    THEN read_digits_loop(buf, pos + 1, max, max_digits, temp_digits + 1,
                          temp_i * 10 + (buf[pos + 1] - 48))
    ELSE [pos |-> pos, digits |-> temp_digits, val |-> temp_i]

read_digits(buf, pos, max, min_digits, max_digits, min_value, max_value) ==
    LET Check(r) ==
            IF r.digits < min_digits
            THEN [err |-> IF r.pos = max THEN ERR_EOF ELSE ERR_OVERFLOW,
                  pos |-> r.pos, val |-> 0, digits |-> 0]
            ELSE IF r.val < min_value \/ r.val > max_value
            THEN [err |-> ERR_OVERFLOW, pos |-> r.pos, val |-> 0, digits |-> 0]
            ELSE [err |-> ERR_NONE, pos |-> r.pos, val |-> r.val, digits |-> r.digits]
    IN  Check(read_digits_loop(buf, pos, max, max_digits, 0, 0))

(* read_double / read_float: the 8 / 4 bytes are the value *)
read_fixed(buf, pos, max, n) ==
    IF pos + n > max THEN [err |-> ERR_EOF, pos |-> pos, val |-> << >>]
    ELSE [err |-> ERR_NONE, pos |-> pos + n, val |-> SubSeqFrom(buf, pos, n)]

skip_char(buf, pos, max, expected) ==
    IF pos >= max THEN [err |-> ERR_EOF, pos |-> pos]
    ELSE IF buf[pos + 1] # expected THEN [err |-> ERR_OVERFLOW, pos |-> pos]
    ELSE [err |-> ERR_NONE, pos |-> pos + 1]

IsSpace(b) == b = 32 \/ (b >= 9 /\ b <= 13)

RECURSIVE skip_whitespace_loop(_, _, _)
skip_whitespace_loop(buf, pos, max) ==
    IF pos < max /\ IsSpace(buf[pos + 1])
    THEN skip_whitespace_loop(buf, pos + 1, max) ELSE pos

skip_whitespace(buf, pos, max, min_chars) ==
    LET p == skip_whitespace_loop(buf, pos, max)
    IN  IF pos + min_chars > p
        THEN [err |-> IF p = max THEN ERR_EOF ELSE ERR_OVERFLOW, pos |-> p]
        ELSE [err |-> ERR_NONE, pos |-> p]

(* ------------------------------------------------------------------ *)
(* avro.c: sizing and writing.  A write takes the bytes written so far *)
(* (the cursor is their number) and the capacity max, and returns      *)
(* [err, out].                                                         *)
(* ------------------------------------------------------------------ *)
RECURSIVE size_long_loop(_, _)
size_long_loop(n, len) ==
    IF I64HighBits(n) THEN size_long_loop(I64Shr7(n), len + 1) ELSE len + 1

(* size_long counting the bytes of l itself, not of its zigzag form *)
size_long_plain(l) == size_long_loop(l, 0)

size_long(l) == size_long_loop(ZigZag(l), 0)

RECURSIVE write_long_loop(_, _)
write_long_loop(n, b) ==
    IF I64HighBits(n) THEN write_long_loop(I64Shr7(n), Append(b, n[1] + 128))
    ELSE Append(b, n[1])

write_long(out, max, l) ==
    LET b == write_long_loop(ZigZag(l), << >>)
    IN  IF Len(out) + Len(b) > max THEN [err |-> ERR_EOF, out |-> out]
        ELSE [err |-> ERR_NONE, out |-> out \o b]

write_int(out, max, i) == write_long(out, max, I64FromInt(i))

write_size(out, max, l) == write_long(out, max, I64FromInt(l))

write_bytes(out, max, b) ==
    LET Data(r) ==
            IF r.err # ERR_NONE THEN r
            ELSE IF Len(r.out) + Len(b) > max THEN [err |-> ERR_EOF, out |-> r.out]
            ELSE [err |-> ERR_NONE, out |-> r.out \o b]
    IN  Data(write_size(out, max, Len(b)))

write_char(out, max, c) ==
    IF Len(out) >= max THEN [err |-> ERR_EOF, out |-> out]
    ELSE [err |-> ERR_NONE, out |-> Append(out, c)]

RECURSIVE DecimalDigits(_)
DecimalDigits(i) ==
    IF i = 0 THEN << >> ELSE Append(DecimalDigits(i \div 10), 48 + (i % 10))

write_digits(out, max, min_digits, i) ==
    LET d == DecimalDigits(i)
        zeroes == IF min_digits > Len(d) THEN min_digits - Len(d) ELSE 0
        digits == Len(d) + zeroes
    IN  IF Len(out) + digits >= max THEN [err |-> ERR_EOF, out |-> out]
        ELSE [err |-> ERR_NONE, out |-> out \o [k \in 1..zeroes |-> 48] \o d]

(* write_double / write_float *)
write_fixed(out, max, b) ==
    IF Len(out) + Len(b) > max THEN [err |-> ERR_EOF, out |-> out]
    ELSE [err |-> ERR_NONE, out |-> out \o b]

(* ------------------------------------------------------------------ *)
(* 64-bit arithmetic for the epoch-millisecond computations of dt.c    *)
(* ------------------------------------------------------------------ *)
RECURSIVE I64AddFrom(_, _, _, _)
I64AddFrom(a, b, k, c) ==
    IF k > 10 THEN << >>
    ELSE LET s == a[k] + b[k] + c
             base == IF k = 10 THEN 2 ELSE 128
         IN  <<s % base>> \o I64AddFrom(a, b, k + 1, s \div base)

I64Add(a, b) == I64AddFrom(a, b, 1, 0)

I64Negate(a) == I64Add(I64Not(a), I64FromInt(1))

I64Sub(a, b) == I64Add(a, I64Negate(b))

(* a * c for a word a >= 0 and a factor 0 <= c <= 10^7 *)
RECURSIVE I64MulFrom(_, _, _, _)
I64MulFrom(a, c, k, carry) ==
    IF k > 10 THEN << >>
    ELSE LET s == a[k] * c + carry
             base == IF k = 10 THEN 2 ELSE 128
         IN  <<s % base>> \o I64MulFrom(a, c, k + 1, s \div base)

I64MulNat(a, c) == I64MulFrom(a, c, 1, 0)

(* a / c and a % c for a word a >= 0 and a divisor 0 < c <= 10^7 *)
RECURSIVE I64DivFrom(_, _, _, _)
I64DivFrom(a, c, k, rem) ==
    IF k = 0 THEN [q |-> << >>, r |-> rem]
    ELSE LET s == rem * 128 + a[k]
             rest == I64DivFrom(a, c, k - 1, s % c)
         IN  [q |-> Append(rest.q, s \div c), r |-> rest.r]

I64DivModNat(a, c) == I64DivFrom(a, c, 10, 0)

(* a < b as signed 64-bit integers *)
I64Less(a, b) ==
    LET d == I64Sub(a, b)
    IN  IF I64Neg(a) # I64Neg(b) THEN I64Neg(a) ELSE I64Neg(d)

(* the decimal constant sign * (a * 10^7 + b) *)
I64Dec(sign, a, b) ==
    LET m == I64Add(I64MulNat(I64FromInt(a), 10000000), I64FromInt(b))
    IN  IF sign < 0 THEN I64Negate(m) ELSE m

(* ------------------------------------------------------------------ *)
(* dt.h: ranges and bit packing                                        *)
(* ------------------------------------------------------------------ *)
MIN_YEAR == 1000
MAX_YEAR == 2900
MIN_EPOCH_MS == I64Dec(-1, 3061022, 4000000)
MAX_EPOCH_MS == I64Dec(1, 2937954, 2399999)
DATE_BASE_YEAR == 1900
DT_BASE_YEAR == 1900
DATE_DEFAULT == -1887301620

(* DATE_YEAR .. DATE_WDAY of a packed date (a 32-bit value in a long) *)
DateFields(d) ==
    [year |-> (d \div 2097152) + DATE_BASE_YEAR,
     month |-> (d \div 131072) % 16,
     day |-> (d \div 4096) % 32,
     yday |-> (d \div 8) % 512,
     wday |-> d % 8]

(* TIME_HOUR .. TIME_MSEC of a packed time *)
TimeFields(t) ==
    [hour |-> (t \div 67108864) % 32,
     minute |-> (t \div 1048576) % 64,
     sec |-> (t \div 16384) % 64,
     msec |-> (t \div 16) % 1024]

(* A packed 64-bit datetime is kept as [hi, lo]: its value is           *)
(* hi * 2^33 + lo * 2^5, with hi the signed top 31 bits (year, month,   *)
(* day, hour, minute) and lo the 28 bits of second, millisecond, day of *)
(* year and day of week; the low 5 bits of the word are always zero.    *)
DTPack(year, month, day, hour, minute, sec, msec, yday, wday) ==
    LET low == sec * 4194304 + msec * 4096 + yday * 8 + wday
        high == (year - DT_BASE_YEAR) * 1048576 + month * 65536 + day * 2048
                + hour * 64 + minute + (low \div 268435456)
    IN  [hi |-> IF high >= 1073741824 THEN (high - 1073741824) - 1073741824
                ELSE IF high < -1073741824 THEN (high + 1073741824) + 1073741824
                ELSE high,
         lo |-> low % 268435456]

DTZero == [hi |-> 0, lo |-> 0]

(* DT_DEFAULT = -8105898787127426688 = -943650816 * 2^33 + 12 * 2^5 *)
DT_DEFAULT == [hi |-> -943650816, lo |-> 12]

(* DT_YEAR .. DT_WDAY *)
DTFields(dt) ==
    [year |-> (dt.hi \div 1048576) + DT_BASE_YEAR,
     month |-> (dt.hi \div 65536) % 16,
     day |-> (dt.hi \div 2048) % 32,
     hour |-> (dt.hi \div 64) % 32,
     minute |-> dt.hi % 64,
     sec |-> (dt.lo \div 4194304) % 64,
     msec |-> (dt.lo \div 4096) % 1024,
     yday |-> (dt.lo \div 8) % 512,
     wday |-> dt.lo % 8]

(* ------------------------------------------------------------------ *)
(* dt.c                                                                *)
(* ------------------------------------------------------------------ *)
BASE_EPOCH_MS == I64Dec(-1, 6216203, 5200000)
MSEC_PER_DAY == 86400000

(* days * MSEC_PER_DAY + ms, with MSEC_PER_DAY = 675000 * 128 *)
DaysMsToI64(days, ms) ==
    I64Add(<<0>> \o SubSeq(I64MulNat(I64FromInt(days), 675000), 1, 9),
           I64FromInt(ms))

(* datetime_to_epoch_ms counting January and February with their own  *)
(* year instead of the year before                                     *)
datetime_to_epoch_ms_own_year(datetime) ==
    LET days_before_month == <<0, 31, 61, 92, 122, 153, 184, 214, 245, 275, 306, 337>>
        Days(f, month, year) ==
            year * 365 + (year \div 4) - (year \div 100) + (year \div 400)
                + days_before_month[month + 1] + f.day - 1
        Fields(f) ==
            I64Add(BASE_EPOCH_MS,
                   DaysMsToI64(Days(f, IF f.month < 3 THEN f.month + 9 ELSE f.month - 3,
                                    f.year),
                               f.hour * 3600000 + f.minute * 60000
                                   + f.sec * 1000 + f.msec))
    IN  Fields(DTFields(datetime))

datetime_to_epoch_ms(datetime) ==
    LET days_before_month == <<0, 31, 61, 92, 122, 153, 184, 214, 245, 275, 306, 337>>
        (* month and year after the shift that puts March first *)
        Days(f, month, year) ==
            year * 365 + (year \div 4) - (year \div 100) + (year \div 400)
                + days_before_month[month + 1] + f.day - 1
        Fields(f) ==
            I64Add(BASE_EPOCH_MS,
                   DaysMsToI64(Days(f, IF f.month < 3 THEN f.month + 9 ELSE f.month - 3,
                                    IF f.month < 3 THEN f.year - 1 ELSE f.year),
                               f.hour * 3600000 + f.minute * 60000
                                   + f.sec * 1000 + f.msec))
    IN  Fields(DTFields(datetime))

RECURSIVE MonthFromDays(_, _)
MonthFromDays(month, days) ==
    LET days_in_month == <<31, 30, 31, 30, 31, 31, 30, 31, 30, 31, 31, 29>>
    IN  IF days_in_month[month + 1] <= days
        THEN MonthFromDays(month + 1, days - days_in_month[month + 1])
        ELSE [month |-> month, days |-> days]

(* epoch_ms must be within MIN_EPOCH_MS .. MAX_EPOCH_MS (so base_ms >= 0). *)
(* The steps follow the source's successive divisions of days; Cap is its  *)
(* "if (x == 4) --x".                                                      *)
epoch_ms_to_datetime(epoch_ms) ==
    LET Cap(q) == IF q = 4 THEN 3 ELSE q
        Pack(milliseconds, day_of_week, year0, is_leap_year, doy0, md) ==
            DTPack(IF md.month + 3 > 12 THEN year0 + 1 ELSE year0,
                   IF md.month + 3 > 12 THEN md.month + 3 - 12 ELSE md.month + 3,
                   md.days + 1,
                   milliseconds \div 3600000, (milliseconds \div 60000) % 60,
                   (milliseconds \div 1000) % 60, milliseconds % 1000,
                   (IF doy0 >= 365 + is_leap_year
                    THEN doy0 - (365 + is_leap_year) ELSE doy0) + 1,
                   day_of_week + 1)
        Leap(milliseconds, day_of_week, year0, is_leap_year, days) ==
            Pack(milliseconds, day_of_week, year0, is_leap_year,
                 days + 59 + is_leap_year, MonthFromDays(0, days))
        Years(milliseconds, days0, centuries_since_cycle, leaps_since_century,
              days, years_since_leap) ==
            Leap(milliseconds, (days0 + 3) % 7,
                 (days0 \div 146097) * 400 + centuries_since_cycle * 100
                     + leaps_since_century * 4 + years_since_leap,
                 IF years_since_leap = 0
                    /\ (leaps_since_century # 0 \/ centuries_since_cycle = 0)
                 THEN 1 ELSE 0,
                 days - years_since_leap * 365)
        Leaps(milliseconds, days0, centuries_since_cycle, days, leaps_since_century) ==
            Years(milliseconds, days0, centuries_since_cycle, leaps_since_century,
                  days - leaps_since_century * 1461,
                  Cap((days - leaps_since_century * 1461) \div 365))
        Centuries(milliseconds, days0, days, centuries_since_cycle) ==
            Leaps(milliseconds, days0, centuries_since_cycle,
                  days - centuries_since_cycle * 36524,
                  (days - centuries_since_cycle * 36524) \div 1461)
        Cycles(milliseconds, days0) ==
            Centuries(milliseconds, days0, days0 % 146097,
                      Cap((days0 % 146097) \div 36524))
        Split(base_ms, dm) == Cycles(dm.r * 128 + base_ms[1], I64ToInt(dm.q))
        Base(base_ms) == Split(base_ms, I64DivModNat(I64Shr7(base_ms), 675000))
    IN  Base(I64Sub(epoch_ms, BASE_EPOCH_MS))

(* compute_days without the test for 29 February of a common year *)
compute_days_any_feb29(year, month, day) ==
    LET days_in_month == <<31, 29, 31, 30, 31, 30, 31, 31, 30, 31, 30, 31>>
        days_before_month == <<0, 31, 60, 91, 121, 152, 182, 213, 244, 274, 305, 335>>
        day_of_week_offset == <<0, 3, 2, 5, 0, 3, 5, 1, 4, 6, 2, 4>>
        not_leap_year == IF year % 4 # 0 \/ (year % 100 = 0 /\ year % 400 # 0)
                         THEN 1 ELSE 0
        y == IF month < 3 THEN year - 1 ELSE year
    IN  IF year < MIN_YEAR \/ year > MAX_YEAR THEN [ok |-> FALSE, yday |-> 0, wday |-> 0]
        ELSE IF day > days_in_month[month] THEN [ok |-> FALSE, yday |-> 0, wday |-> 0]
        ELSE [ok |-> TRUE,
              yday |-> IF month < 3 THEN days_before_month[month] + day
                       ELSE days_before_month[month] - not_leap_year + day,
              wday |-> ((day + day_of_week_offset[month] + y + (y \div 4)
                         - (y \div 100) + (y \div 400)) % 7) + 1]

(* [ok, yday, wday]; month must be within 1..12 *)
compute_days(year, month, day) ==
    LET days_in_month == <<31, 29, 31, 30, 31, 30, 31, 31, 30, 31, 30, 31>>
        days_before_month == <<0, 31, 60, 91, 121, 152, 182, 213, 244, 274, 305, 335>>
        day_of_week_offset == <<0, 3, 2, 5, 0, 3, 5, 1, 4, 6, 2, 4>>
        not_leap_year == IF year % 4 # 0 \/ (year % 100 = 0 /\ year % 400 # 0)
                         THEN 1 ELSE 0
        y == IF month < 3 THEN year - 1 ELSE year
    IN  IF year < MIN_YEAR \/ year > MAX_YEAR THEN [ok |-> FALSE, yday |-> 0, wday |-> 0]
        ELSE IF day > days_in_month[month] THEN [ok |-> FALSE, yday |-> 0, wday |-> 0]
        ELSE IF not_leap_year = 1 /\ month = 2 /\ day = 29
             THEN [ok |-> FALSE, yday |-> 0, wday |-> 0]
        ELSE [ok |-> TRUE,
              yday |-> IF month < 3 THEN days_before_month[month] + day
                       ELSE days_before_month[month] - not_leap_year + day,
              wday |-> ((day + day_of_week_offset[month] + y + (y \div 4)
                         - (y \div 100) + (y \div 400)) % 7) + 1]

(* [ok, val] *)
encode_date(year, month, day) ==
    LET Pack(c) ==
            IF ~c.ok THEN [ok |-> FALSE, val |-> 0]
            ELSE [ok |-> TRUE,
                  val |-> (year - DATE_BASE_YEAR) * 2097152 + month * 131072
                          + day * 4096 + c.yday * 8 + c.wday]
    IN  Pack(compute_days(year, month, day))

encode_datetime(year, month, day, hour, minute, second, millisecond) ==
    LET Pack(c) ==
            IF ~c.ok THEN [ok |-> FALSE, val |-> DTZero]
            ELSE [ok |-> TRUE,
                  val |-> DTPack(year, month, day, hour, minute, second,
                                 millisecond, c.yday, c.wday)]
    IN  Pack(compute_days(year, month, day))

encode_time(hour, minute, second, millisecond) ==
    hour * 67108864 + minute * 1048576 + second * 16384 + millisecond * 16

(* ------------------------------------------------------------------ *)
(* record.h / record.c: column data types, raw cells, host values      *)
(*                                                                     *)
(* A column definition is [data_type, is_nullable].  A raw cell        *)
(* (ColumnValue) is [len, val]; len = -1 is null.  A record is         *)
(* [type, cells, values, size]: values[i] is the cached host object,   *)
(* NULLV when it has not been built from the raw cell.                 *)
(* ------------------------------------------------------------------ *)
ColumnDataType ==
    <<"bytes", "char1", "char2", "char4", "char8", "char16", "char32",
      "char64", "char128", "char256", "date", "datetime", "double", "float",
      "int", "int8", "int16", "long", "string", "time", "timestamp">>

SmallChars == {"char1", "char2", "char4", "char8"}
LargeChars == {"char16", "char32", "char64", "char128", "char256"}

(* the size argument of the charN helpers *)
CharSize(dt) ==
    CASE dt = "char1" -> 1 [] dt = "char2" -> 2 [] dt = "char4" -> 4
      [] dt = "char8" -> 8 [] dt = "char16" -> 16 [] dt = "char32" -> 32
      [] dt = "char64" -> 64 [] dt = "char128" -> 128 [] dt = "char256" -> 256

(* INT32_MIN .. INT32_MAX, INT8_MIN .. INT8_MAX, INT16_MIN .. INT16_MAX *)
IntMin(dt) ==
    CASE dt = "int" -> -2147483647 - 1 [] dt = "int8" -> -128 [] dt = "int16" -> -32768
IntMax(dt) ==
    CASE dt = "int" -> 2147483647 [] dt = "int8" -> 127 [] dt = "int16" -> 32767

NULLV == [k |-> "NULL"]
NONE == [k |-> "None"]
Obj(v) == [k |-> "obj", v |-> v]
(* a host object that PyNumber_Long refuses: the TypeError of a number column *)
Unconvertible == [k |-> "unconvertible"]

(* the zeroed ColumnValueBase of a data type *)
ZeroValue(dt) ==
    CASE dt \in {"bytes", "string"} \cup SmallChars \cup LargeChars -> << >>
      [] dt \in {"date", "time", "int", "int8", "int16"} -> 0
      [] dt \in {"datetime", "timestamp"} -> DTZero
      [] dt = "double" -> <<0, 0, 0, 0, 0, 0, 0, 0>>
      [] dt = "float" -> <<0, 0, 0, 0>>
      [] dt = "long" -> I64Zero

IsNullable(def) == IF def.is_nullable THEN 1 ELSE 0

(* Python floats are doubles, kept as their 8 bytes; a float column    *)
(* holds the 4 bytes of the narrowed value.  The conversions are       *)
(* tabulated for the doubles the model uses: 0.0, 1.0, -2.5 and 0.1    *)
(* (which is not representable: it widens back to 0.100000001490116).  *)
FloatTable ==
    << [d |-> <<0, 0, 0, 0, 0, 0, 0, 0>>, f |-> <<0, 0, 0, 0>>],
       [d |-> <<0, 0, 0, 0, 0, 0, 240, 63>>, f |-> <<0, 0, 128, 63>>],
       [d |-> <<0, 0, 0, 0, 0, 0, 4, 192>>, f |-> <<0, 0, 32, 192>>],
       [d |-> <<154, 153, 153, 153, 153, 153, 185, 63>>, f |-> <<205, 204, 204, 61>>],
       [d |-> <<0, 0, 0, 160, 153, 153, 185, 63>>, f |-> <<205, 204, 204, 61>>] >>

(* (float)d *)
NarrowToFloat(d) == (CHOOSE e \in {FloatTable[k] : k \in DOMAIN FloatTable} : e.d = d).f

(* (double)f *)
WidenToDouble(f) ==
    LET idx == {k \in DOMAIN FloatTable : FloatTable[k].f = f}
    IN  FloatTable[CHOOSE k \in idx : \A j \in idx : j <= k].d

(* ------------------------------------------------------------------ *)
(* record.c: get_column, set_column, clear_column                      *)
(* ------------------------------------------------------------------ *)
(* a str is kept as its UTF-8 bytes; the model uses ASCII text only *)
IsUtf8(b) == \A k \in DOMAIN b : b[k] < 128

(* get_column[data_type](column_value): [ok, obj] *)
get_column(dt, cell) ==
    CASE dt = "bytes" \/ dt \in SmallChars -> [ok |-> TRUE, obj |-> cell.val]
      [] dt = "string" \/ dt \in LargeChars ->
            [ok |-> IsUtf8(cell.val), obj |-> cell.val]
      [] dt = "date" ->
            LET f == DateFields(IF cell.val = 0 THEN DATE_DEFAULT ELSE cell.val)
            IN  [ok |-> TRUE, obj |-> <<f.year, f.month, f.day>>]
      [] dt = "datetime" ->
            LET f == DTFields(IF cell.val = DTZero THEN DT_DEFAULT ELSE cell.val)
            IN  [ok |-> TRUE,
                 obj |-> <<f.year, f.month, f.day, f.hour, f.minute, f.sec,
                           f.msec * 1000>>]
      [] dt = "double" -> [ok |-> TRUE, obj |-> cell.val]
      [] dt = "float" -> [ok |-> TRUE, obj |-> WidenToDouble(cell.val)]
      [] dt \in {"int", "int8", "int16", "long"} -> [ok |-> TRUE, obj |-> cell.val]
      [] dt = "time" ->
            LET f == TimeFields(cell.val)
            IN  [ok |-> TRUE, obj |-> <<f.hour, f.minute, f.sec, f.msec * 1000>>]
      [] dt = "timestamp" ->
            [ok |-> TRUE,
             obj |-> datetime_to_epoch_ms(IF cell.val = DTZero THEN DT_DEFAULT
                                          ELSE cell.val)]

(* set_column[data_type]: the raw cell for a host value of the column's *)
(* host type, [ok, cell]                                                *)
set_column(dt, value) ==
    CASE dt \in {"bytes", "string"} ->
            [ok |-> TRUE, cell |-> [len |-> Len(value), val |-> value]]
      [] dt \in SmallChars \cup LargeChars ->
            [ok |-> Len(value) <= CharSize(dt),
             cell |-> [len |-> Len(value), val |-> value]]
      [] dt = "date" ->
            LET e == encode_date(value[1], value[2], value[3])
            IN  [ok |-> e.ok, cell |-> [len |-> 0, val |-> e.val]]
      [] dt = "datetime" ->
            LET e == encode_datetime(value[1], value[2], value[3], value[4],
                                     value[5], value[6], value[7] \div 1000)
            IN  [ok |-> e.ok, cell |-> [len |-> 0, val |-> e.val]]
      [] dt = "double" -> [ok |-> TRUE, cell |-> [len |-> 0, val |-> value]]
      [] dt = "float" ->
            [ok |-> TRUE, cell |-> [len |-> 0, val |-> NarrowToFloat(value)]]
      [] dt \in {"int", "int8", "int16"} ->
            [ok |-> value >= IntMin(dt) /\ value <= IntMax(dt),
             cell |-> [len |-> 0, val |-> value]]
      [] dt = "long" -> [ok |-> TRUE, cell |-> [len |-> 0, val |-> value]]
      [] dt = "time" ->
            [ok |-> TRUE,
             cell |-> [len |-> 0,
                       val |-> encode_time(value[1], value[2], value[3],
                                           value[4] \div 1000)]]
      [] dt = "timestamp" ->
            IF I64Less(value, MIN_EPOCH_MS) \/ I64Less(MAX_EPOCH_MS, value)
            THEN [ok |-> FALSE, cell |-> [len |-> 0, val |-> DTZero]]
            ELSE [ok |-> TRUE,
                  cell |-> [len |-> 0, val |-> epoch_ms_to_datetime(value)]]

(* clear_column leaving every cleared column null, nullable or not *)
clear_column_null(r, index, from_python) ==
    [r EXCEPT !.cells[index] = [len |-> -1,
                                val |-> ZeroValue(r.type[index].data_type)],
              !.values[index] = IF from_python THEN NULLV ELSE @]

(* clear_column[data_type](record, index, from_python); index from 1 *)
clear_column(r, index, from_python) ==
    [r EXCEPT !.cells[index] = [len |-> -IsNullable(r.type[index]),
                                val |-> ZeroValue(r.type[index].data_type)],
              !.values[index] = IF from_python THEN NULLV ELSE @]

(* ------------------------------------------------------------------ *)
(* record.c: size_column, size_record                                  *)
(* ------------------------------------------------------------------ *)
size_column(dt, cell) ==
    CASE dt \in {"bytes", "string"} \cup SmallChars \cup LargeChars ->
            size_long(I64FromInt(cell.len)) + cell.len
      [] dt = "date" -> 11
      [] dt = "datetime" -> 24
      [] dt = "double" -> 8
      [] dt = "float" -> 4
      [] dt \in {"int", "int8", "int16"} -> size_long(I64FromInt(cell.val))
      [] dt = "long" -> size_long(cell.val)
      [] dt = "time" -> 13
      [] dt = "timestamp" -> size_long(datetime_to_epoch_ms(cell.val))

(* the loop of size_record over columns i .. column_count *)
RECURSIVE size_record_loop(_, _, _)
size_record_loop(r, i, size) ==
    IF i > Len(r.type) THEN size
    ELSE LET def == r.type[i]
             tag == IF def.is_nullable THEN 1 ELSE 0
         IN  IF def.is_nullable /\ r.cells[i].len < 0
             THEN size_record_loop(r, i + 1, size + tag)
             ELSE size_record_loop(r, i + 1,
                      size + tag + size_column(def.data_type, r.cells[i]))

(* [size, r]: the size returned and the record with the size cached *)
size_record(r) ==
    LET Cache(size) == [size |-> size, r |-> [r EXCEPT !.size = size]]
    IN  IF r.size # 0 THEN [size |-> r.size, r |-> r]
        ELSE Cache(size_record_loop(r, 1, 0))

(* ------------------------------------------------------------------ *)
(* record.c: write_column, write_record                                *)
(* ------------------------------------------------------------------ *)
(* a chain of writes stopped by the first error, as AVRO_RETURN_ERROR  *)
(* does; a step is <<"size", l>>, <<"char", c>> or                     *)
(* <<"digits", i, min_digits>>                                         *)
RECURSIVE WriteSteps(_, _, _)
WriteSteps(out, max, steps) ==
    IF steps = << >> THEN [err |-> ERR_NONE, out |-> out]
    ELSE LET st == Head(steps)
             w == CASE st[1] = "size" -> write_size(out, max, st[2])
                    [] st[1] = "char" -> write_char(out, max, st[2])
                    [] st[1] = "digits" -> write_digits(out, max, st[3], st[2])
         IN  IF w.err # ERR_NONE THEN w ELSE WriteSteps(w.out, max, Tail(steps))

write_date_column(out, max, cell) ==
    LET f == DateFields(IF cell.val = 0 THEN DATE_DEFAULT ELSE cell.val)
    IN  WriteSteps(out, max,
            << <<"size", 10>>, <<"digits", f.year, 4>>, <<"char", 45>>, <<"digits", f.month, 2>>,
               <<"char", 45>>, <<"digits", f.day, 2>> >>)

write_datetime_column(out, max, cell) ==
    LET f == DTFields(IF cell.val = DTZero THEN DT_DEFAULT ELSE cell.val)
    IN  WriteSteps(out, max,
            << <<"size", 23>>, <<"digits", f.year, 4>>, <<"char", 45>>, <<"digits", f.month, 2>>,
               <<"char", 45>>, <<"digits", f.day, 2>>, <<"char", 32>>, <<"digits", f.hour, 2>>,
               <<"char", 58>>, <<"digits", f.minute, 2>>, <<"char", 58>>, <<"digits", f.sec, 2>>,
               <<"char", 46>>, <<"digits", f.msec, 3>> >>)

write_time_column(out, max, cell) ==
    LET f == TimeFields(cell.val)
    IN  WriteSteps(out, max,
            << <<"size", 12>>, <<"digits", f.hour, 2>>, <<"char", 58>>, <<"digits", f.minute, 2>>,
               <<"char", 58>>, <<"digits", f.sec, 2>>, <<"char", 46>>, <<"digits", f.msec, 3>> >>)

write_timestamp_column(out, max, cell) ==
    write_long(out, max,
        datetime_to_epoch_ms(IF cell.val = DTZero THEN DT_DEFAULT ELSE cell.val))

write_column(dt, out, max, cell) ==
    CASE dt \in {"bytes", "string"} \cup SmallChars \cup LargeChars ->
            write_bytes(out, max, cell.val)
      [] dt = "date" -> write_date_column(out, max, cell)
      [] dt = "datetime" -> write_datetime_column(out, max, cell)
      [] dt \in {"double", "float"} -> write_fixed(out, max, cell.val)
      [] dt \in {"int", "int8", "int16"} -> write_int(out, max, cell.val)
      [] dt = "long" -> write_long(out, max, cell.val)
      [] dt = "time" -> write_time_column(out, max, cell)
      [] dt = "timestamp" -> write_timestamp_column(out, max, cell)

(* the loop of write_record over columns i .. column_count: [err, out] *)
RECURSIVE write_record_loop(_, _, _, _)
write_record_loop(out, max, r, i) ==
    IF i > Len(r.type) THEN [err |-> ERR_NONE, out |-> out]
    ELSE LET Value(w) ==
                 IF w.err # ERR_NONE THEN w
                 ELSE write_record_loop(w.out, max, r, i + 1)
             IsNull(tag) ==
                 IF tag.err # ERR_NONE THEN tag
                 ELSE IF r.cells[i].len < 0
                      THEN write_record_loop(tag.out, max, r, i + 1)
                 ELSE Value(write_column(r.type[i].data_type, tag.out, max, r.cells[i]))
         IN  IF r.type[i].is_nullable
             THEN IsNull(write_long(out, max,
                             I64FromInt(IF r.cells[i].len < 0 THEN 1 ELSE 0)))
             ELSE Value(write_column(r.type[i].data_type, out, max, r.cells[i]))

write_record(out, max, r) == write_record_loop(out, max, r, 1)

(* ------------------------------------------------------------------ *)
(* record.c: read_column, read_record.  A column read returns          *)
(* [err, pos, cell]; the cell is stored only when err = ERR_NONE.      *)
(* ------------------------------------------------------------------ *)
ReadFail(err, pos) == [err |-> err, pos |-> pos, cell |-> [len |-> 0, val |-> 0]]

ReadOk(pos, len, val) == [err |-> ERR_NONE, pos |-> pos, cell |-> [len |-> len, val |-> val]]

(* read_bytes_column, and read_char_column_small / _large with size:   *)
(* size < 0 stands for no limit                                        *)
read_bytes_column(buf, pos, max, size) ==
    LET Data(l) ==
            IF l.err # ERR_NONE THEN ReadFail(l.err, l.pos)
            ELSE IF size >= 0 /\ l.val > size THEN ReadFail(ERR_OVERFLOW, l.pos)
            ELSE ReadOk(l.pos + l.val, l.val, SubSeqFrom(buf, l.pos, l.val))
    IN  Data(read_bytes_len(buf, pos, max))

(* the "YYYY-MM-DD" part shared by read_date_column and                *)
(* read_datetime_column, from the length prefix on: [err, pos, max,    *)
(* year, month, day] with max the end of the text.  Each step is one   *)
(* call of the source with its AVRO_RETURN_ERROR.                      *)
ReadDatePart(buf, pos, max) ==
    LET F(e, p) == [err |-> e, pos |-> p, max |-> 0, year |-> 0, month |-> 0, day |-> 0]
        Day(mx, y, m, d) ==
            IF d.err # ERR_NONE THEN F(d.err, d.pos)
            ELSE [err |-> ERR_NONE, pos |-> d.pos, max |-> mx,
                  year |-> y.val, month |-> m.val, day |-> d.val]
        Dash2(mx, y, m, c) ==
            IF c.err # ERR_NONE THEN F(c.err, c.pos)
            ELSE Day(mx, y, m, read_digits(buf, c.pos, mx, 2, 2, 1, 31))
        Month(mx, y, m) ==
            IF m.err # ERR_NONE THEN F(m.err, m.pos)
            ELSE Dash2(mx, y, m, skip_char(buf, m.pos, mx, 45))
        Dash1(mx, y, c) ==
            IF c.err # ERR_NONE THEN F(c.err, c.pos)
            ELSE Month(mx, y, read_digits(buf, c.pos, mx, 2, 2, 1, 12))
        Year(mx, y) ==
            IF y.err # ERR_NONE THEN F(y.err, y.pos)
            ELSE Dash1(mx, y, skip_char(buf, y.pos, mx, 45))
        Text(l) ==
            IF l.err # ERR_NONE THEN F(l.err, l.pos)
            ELSE Year(l.pos + l.val,
                      read_digits(buf, skip_whitespace(buf, l.pos, l.pos + l.val, 0).pos,
                                  l.pos + l.val, 4, 4, 1000, 2900))
    IN  Text(read_bytes_len(buf, pos, max))

(* the "HH:MM:SS[.fff]" part shared by read_datetime_column and        *)
(* read_time_column, up to the trailing whitespace and end test;       *)
(* frac_digits is the max_digits of the fraction: [err, pos, hour,     *)
(* minute, second, millisecond]                                        *)
ReadTimePart(buf, pos, max, frac_digits) ==
    LET F(e, p) == [err |-> e, pos |-> p, hour |-> 0, minute |-> 0,
                    second |-> 0, millisecond |-> 0]
        Scale(fr) ==
            IF fr.digits < 3
            THEN (IF fr.digits = 2 THEN fr.val * 10 ELSE fr.val * 100)
            ELSE IF fr.digits > 3 /\ frac_digits = 6
                 THEN (IF fr.digits = 4 THEN fr.val \div 10
                       ELSE IF fr.digits = 5 THEN fr.val \div 100
                       ELSE fr.val \div 1000)
            ELSE fr.val
        End(h, mi, s, ms, p) ==
            IF p # max THEN F(ERR_OVERFLOW, p)
            ELSE [err |-> ERR_NONE, pos |-> p, hour |-> h.val, minute |-> mi.val,
                  second |-> s.val, millisecond |-> ms]
        Fraction(h, mi, s, fr) ==
            IF fr.err # ERR_NONE THEN F(fr.err, fr.pos)
            ELSE End(h, mi, s, Scale(fr), skip_whitespace(buf, fr.pos, max, 0).pos)
        Second(h, mi, s) ==
            IF s.err # ERR_NONE THEN F(s.err, s.pos)
            ELSE IF s.pos < max /\ buf[s.pos + 1] = 46
                 THEN Fraction(h, mi, s,
                          read_digits(buf, s.pos + 1, max, 1, frac_digits, 0, 999999))
            ELSE End(h, mi, s, 0, skip_whitespace(buf, s.pos, max, 0).pos)
        Colon2(h, mi, c) ==
            IF c.err # ERR_NONE THEN F(c.err, c.pos)
            ELSE Second(h, mi, read_digits(buf, c.pos, max, 2, 2, 0, 59))
        Minute(h, mi) ==
            IF mi.err # ERR_NONE THEN F(mi.err, mi.pos)
            ELSE Colon2(h, mi, skip_char(buf, mi.pos, max, 58))
        Colon1(h, c) ==
            IF c.err # ERR_NONE THEN F(c.err, c.pos)
            ELSE Minute(h, read_digits(buf, c.pos, max, 2, 2, 0, 59))
        Hour(h) ==
            IF h.err # ERR_NONE THEN F(h.err, h.pos)
            ELSE Colon1(h, skip_char(buf, h.pos, max, 58))
    IN  Hour(read_digits(buf, pos, max, 1, 2, 0, 23))

read_date_column(buf, pos, max) ==
    LET Encoded(p, e) ==
            IF ~e.ok THEN ReadFail(ERR_OVERFLOW, p) ELSE ReadOk(p, 0, e.val)
        End(d, p) ==
            IF p # d.max THEN ReadFail(ERR_OVERFLOW, p)
            ELSE Encoded(p, encode_date(d.year, d.month, d.day))
        Date(d) ==
            IF d.err # ERR_NONE THEN ReadFail(d.err, d.pos)
            ELSE End(d, skip_whitespace(buf, d.pos, d.max, 0).pos)
    IN  Date(ReadDatePart(buf, pos, max))

read_datetime_column(buf, pos, max) ==
    LET Encoded(p, e) ==
            IF ~e.ok THEN ReadFail(ERR_OVERFLOW, p) ELSE ReadOk(p, 0, e.val)
        Time(d, t) ==
            IF t.err # ERR_NONE THEN ReadFail(t.err, t.pos)
            ELSE Encoded(t.pos, encode_datetime(d.year, d.month, d.day, t.hour,
                                                t.minute, t.second, t.millisecond))
        Space(d, w) ==
            IF w.err # ERR_NONE THEN ReadFail(w.err, w.pos)
            ELSE IF w.pos = d.max
                 THEN Encoded(w.pos, encode_datetime(d.year, d.month, d.day, 0, 0, 0, 0))
            ELSE Time(d, ReadTimePart(buf, w.pos, d.max, 6))
        Date(d) ==
            IF d.err # ERR_NONE THEN ReadFail(d.err, d.pos)
            ELSE IF d.pos < d.max THEN Space(d, skip_whitespace(buf, d.pos, d.max, 1))
            ELSE Space(d, [err |-> ERR_NONE, pos |-> d.pos])
    IN  Date(ReadDatePart(buf, pos, max))

read_time_column(buf, pos, max) ==
    LET Time(t) ==
            IF t.err # ERR_NONE THEN ReadFail(t.err, t.pos)
            ELSE ReadOk(t.pos, 0, encode_time(t.hour, t.minute, t.second, t.millisecond))
        Text(l) ==
            IF l.err # ERR_NONE THEN ReadFail(l.err, l.pos)
            ELSE Time(ReadTimePart(buf, skip_whitespace(buf, l.pos, l.pos + l.val, 0).pos,
                                   l.pos + l.val, 3))
    IN  Text(read_bytes_len(buf, pos, max))

(* read_int_column, and read_int_column_small with the range of dt *)
read_int_column(buf, pos, max, dt) ==
    LET Range(v) ==
            IF v.err # ERR_NONE THEN ReadFail(v.err, v.pos)
            ELSE IF dt # "int" /\ (v.val < IntMin(dt) \/ v.val > IntMax(dt))
                 THEN ReadFail(ERR_OVERFLOW, v.pos)
            ELSE ReadOk(v.pos, 0, v.val)
    IN  Range(read_int(buf, pos, max))

read_timestamp_column(buf, pos, max) ==
    LET Range(v) ==
            IF v.err # ERR_NONE THEN ReadFail(v.err, v.pos)
            ELSE IF I64Less(v.val, MIN_EPOCH_MS) \/ I64Less(MAX_EPOCH_MS, v.val)
                 THEN ReadFail(ERR_OVERFLOW, v.pos)
            ELSE ReadOk(v.pos, 0, epoch_ms_to_datetime(v.val))
    IN  Range(read_long(buf, pos, max))

read_column(dt, buf, pos, max) ==
    LET Plain(v) == IF v.err # ERR_NONE THEN ReadFail(v.err, v.pos)
                    ELSE ReadOk(v.pos, 0, v.val)
    IN  CASE dt \in {"bytes", "string"} -> read_bytes_column(buf, pos, max, -1)
          [] dt \in SmallChars \cup LargeChars ->
                read_bytes_column(buf, pos, max, CharSize(dt))
          [] dt = "date" -> read_date_column(buf, pos, max)
          [] dt = "datetime" -> read_datetime_column(buf, pos, max)
          [] dt = "double" -> Plain(read_fixed(buf, pos, max, 8))
          [] dt = "float" -> Plain(read_fixed(buf, pos, max, 4))
          [] dt \in {"int", "int8", "int16"} -> read_int_column(buf, pos, max, dt)
          [] dt = "long" -> Plain(read_long(buf, pos, max))
          [] dt = "time" -> read_time_column(buf, pos, max)
          [] dt = "timestamp" -> read_timestamp_column(buf, pos, max)

(* the loop of read_record from column i (counted from 0 as in the     *)
(* source): [err, pos, r, i] with i the column at which it stopped     *)
RECURSIVE read_record_loop(_, _, _, _, _)
read_record_loop(buf, pos, max, r, i) ==
    IF i >= Len(r.type) THEN [err |-> ERR_NONE, pos |-> pos, r |-> r, i |-> i]
    ELSE LET Stop(e, p) == [err |-> e, pos |-> p, r |-> r, i |-> i]
             Value(c) ==
                 IF c.err # ERR_NONE THEN Stop(c.err, c.pos)
                 ELSE read_record_loop(buf, c.pos, max,
                                       [r EXCEPT !.cells[i + 1] = c.cell], i + 1)
             IsNull(t) ==
                 IF t.err # ERR_NONE THEN Stop(t.err, t.pos)
                 ELSE IF t.val = I64FromInt(1)
                      THEN read_record_loop(buf, t.pos, max,
                                            [r EXCEPT !.cells[i + 1].len = -1], i + 1)
                 ELSE IF t.val # I64Zero THEN Stop(ERR_OVERFLOW, t.pos)
                 ELSE Value(read_column(r.type[i + 1].data_type, buf, t.pos, max))
         IN  IF r.type[i + 1].is_nullable THEN IsNull(read_long(buf, pos, max))
             ELSE Value(read_column(r.type[i + 1].data_type, buf, pos, max))

(* the error exit of read_record: for (; i > 0; --i) clear_column(i)   *)
RECURSIVE read_record_cleanup(_, _)
read_record_cleanup(r, i) ==
    IF i > 0 THEN read_record_cleanup(clear_column(r, i + 1, FALSE), i - 1)
    ELSE r

(* [err, pos, r] *)
read_record(buf, pos, max, r) ==
    LET Exit(x) ==
            IF x.err = ERR_NONE THEN [err |-> ERR_NONE, pos |-> x.pos, r |-> x.r]
            ELSE [err |-> x.err, pos |-> x.pos, r |-> read_record_cleanup(x.r, x.i)]
    IN  Exit(read_record_loop(buf, pos, max, [r EXCEPT !.size = 0], 0))

(* ------------------------------------------------------------------ *)
(* record.c: the Record class.  Column indices count from 1.           *)
(* ------------------------------------------------------------------ *)
(* Record_new: every cell zeroed, len = -is_nullable, no host values *)
Record_new(type) ==
    [type |-> type,
     cells |-> [i \in DOMAIN type |->
                   [len |-> -IsNullable(type[i]), val |-> ZeroValue(type[i].data_type)]],
     values |-> [i \in DOMAIN type |-> NULLV],
     size |-> 0]

(* [ok, r]: r with values[index] built on demand *)
Record_get_value(r, index) ==
    LET Built(g) ==
            IF g.ok THEN [ok |-> TRUE, r |-> [r EXCEPT !.values[index] = Obj(g.obj)]]
            ELSE [ok |-> FALSE, r |-> r]
    IN  IF r.values[index] # NULLV THEN [ok |-> TRUE, r |-> r]
        ELSE IF r.cells[index].len < 0
             THEN [ok |-> TRUE, r |-> [r EXCEPT !.values[index] = NONE]]
        ELSE Built(get_column(r.type[index].data_type, r.cells[index]))

(* _Record_set_value storing the raw cell before the value is checked *)
Record_set_value_stores_first(r, index, value) ==
    LET Store(s) ==
            [ok |-> s.ok,
             r |-> [r EXCEPT !.cells[index] = s.cell,
                             !.values[index] = IF s.ok THEN value ELSE @]]
    IN  IF value = NULLV \/ value = NONE
        THEN IF value = NONE /\ ~r.type[index].is_nullable THEN [ok |-> FALSE, r |-> r]
             ELSE [ok |-> TRUE, r |-> clear_column(r, index, TRUE)]
        ELSE IF value = Unconvertible THEN [ok |-> FALSE, r |-> r]
        ELSE Store(set_column(r.type[index].data_type, value.v))

(* value is NULLV (a deletion), NONE, Unconvertible or Obj(v): [ok, r] *)
Record_set_value(r, index, value) ==
    LET Store(s) ==
            IF s.ok THEN [ok |-> TRUE,
                          r |-> [r EXCEPT !.cells[index] = s.cell,
                                          !.values[index] = value]]
            ELSE [ok |-> FALSE, r |-> r]
    IN  IF value = NULLV \/ value = NONE
        THEN IF value = NONE /\ ~r.type[index].is_nullable THEN [ok |-> FALSE, r |-> r]
             ELSE [ok |-> TRUE, r |-> clear_column(r, index, TRUE)]
        ELSE IF value = Unconvertible THEN [ok |-> FALSE, r |-> r]
        ELSE Store(set_column(r.type[index].data_type, value.v))

(* sets columns <<index, value>> in order until one fails: [ok, r] *)
RECURSIVE SetEach(_, _)
SetEach(r, pairs) ==
    LET Rest(s) == IF s.ok THEN SetEach(s.r, Tail(pairs)) ELSE s
    IN  IF pairs = << >> THEN [ok |-> TRUE, r |-> r]
        ELSE Rest(Record_set_value(r, Head(pairs)[1], Head(pairs)[2]))

(* _Record_set_sequence on a list or tuple, skip = 0 *)
Record_set_sequence(r, vals) ==
    LET Count(s) == IF ~s.ok THEN s ELSE [ok |-> Len(vals) = Len(r.type), r |-> s.r]
    IN  Count(SetEach([r EXCEPT !.size = 0],
                      [i \in 1..Min(Len(vals), Len(r.type)) |-> <<i, vals[i]>>]))

(* _Record_set_mapping on a dict given as its <<index, value>> items in *)
(* iteration order; index 0 stands for a key that names no column      *)
Record_set_mapping(r, items) ==
    LET Known(bad) ==
            IF bad = {} THEN Len(items)
            ELSE (CHOOSE k \in bad : \A j \in bad : k <= j) - 1
        Key(bad, s) == IF ~s.ok THEN s ELSE [ok |-> bad = {}, r |-> s.r]
        Items(bad) ==
            Key(bad, SetEach([r EXCEPT !.size = 0], SubSeq(items, 1, Known(bad))))
    IN  Items({k \in DOMAIN items : items[k][1] = 0})

(* Record_ass_item without the reset of the cached size *)
Record_ass_item_keeps_size(r, index, value) ==
    IF index < 1 \/ index > Len(r.type) THEN [ok |-> FALSE, r |-> r]
    ELSE Record_set_value(r, index, value)

(* index is the 1-based column; an index outside 1 .. column_count is  *)
(* the IndexError                                                      *)
Record_ass_item(r, index, value) ==
    IF index < 1 \/ index > Len(r.type) THEN [ok |-> FALSE, r |-> r]
    ELSE Record_set_value([r EXCEPT !.size = 0], index, value)

(* Record_ass_subscript with a slice of step 1 covering columns        *)
(* start .. start + slicelength - 1; del is TRUE for a deletion        *)
Record_ass_slice(r, start, slicelength, del, vals) ==
    IF del
    THEN SetEach([r EXCEPT !.size = 0],
                 [i \in 1..slicelength |-> <<start + i - 1, NULLV>>])
    ELSE IF Len(vals) # slicelength THEN [ok |-> FALSE, r |-> [r EXCEPT !.size = 0]]
    ELSE SetEach([r EXCEPT !.size = 0],
                 [i \in 1..slicelength |-> <<start + i - 1, vals[i]>>])

RECURSIVE ClearAll(_, _)
ClearAll(r, i) ==
    IF i > Len(r.type) THEN r ELSE ClearAll(clear_column(r, i, TRUE), i + 1)

(* Record.decode(buffer): [err, r] *)
Record_decode(r, buf) ==
    LET Result(x) == [err |-> x.err, r |-> x.r]
    IN  Result(read_record(buf, 0, Len(buf), ClearAll(r, 1)))

(* Record.encode(): [err, out, r, size]; the buffer holds exactly size  *)
(* bytes                                                                *)
Record_encode(r) ==
    LET Result(s, w) == [err |-> w.err, out |-> w.out, r |-> s.r, size |-> s.size]
        Buffer(s) == Result(s, write_record(<< >>, s.size, s.r))
    IN  Buffer(size_record(r))

(* Record.update(values) with one list / tuple or dict argument *)
Record_update(r, is_mapping, values) ==
    IF is_mapping THEN Record_set_mapping(r, values)
    ELSE Record_set_sequence(r, values)

(* ------------------------------------------------------------------ *)
(* Bounds and input domains                                            *)
(* ------------------------------------------------------------------ *)
(* longest bytes / str host value *)
MaxLen == 2

(* spare bytes of a buffer larger than the record written into it *)
Slack == 1

Column(dt, nullable) == [data_type |-> dt, is_nullable |-> nullable]

AllColumns ==
    {Column(ColumnDataType[k], n) : k \in DOMAIN ColumnDataType, n \in BOOLEAN}

(* the columns that follow a first column in the two-column types *)
SecondColumns ==
    {Column("int", FALSE), Column("string", TRUE), Column("date", FALSE),
     Column("timestamp", TRUE)}

(* record types: every column kind alone, and every column kind followed *)
(* by one of SecondColumns                                               *)
RecordTypes ==
    {<<c>> : c \in AllColumns} \cup {<<c, d>> : c \in AllColumns, d \in SecondColumns}

I64Min == [k \in 1..10 |-> IF k = 10 THEN 1 ELSE 0]
I64Max == [k \in 1..10 |-> IF k = 10 THEN 0 ELSE 127]

(* host values representable in a column of the data type *)
Representable(dt) ==
    CASE dt = "bytes" -> {[k \in 1..n |-> 256 - k] : n \in 0..MaxLen}
      [] dt = "string" \/ dt \in LargeChars ->
            {[k \in 1..n |-> 96 + k] : n \in 0..MaxLen}
      [] dt \in SmallChars ->
            {[k \in 1..n |-> 96 + k] : n \in 0..Min(MaxLen, CharSize(dt))}
      [] dt = "date" -> {<<1000, 1, 1>>, <<2000, 2, 29>>, <<2900, 12, 31>>}
      [] dt = "datetime" ->
            {<<1000, 1, 1, 0, 0, 0, 0>>, <<2000, 2, 29, 23, 59, 59, 999000>>}
      [] dt = "double" -> {FloatTable[2].d, FloatTable[4].d}
      [] dt = "float" -> {FloatTable[2].d, FloatTable[3].d}
      [] dt \in {"int", "int8", "int16"} -> {IntMin(dt), -1, IntMax(dt)}
      [] dt = "long" -> {I64Min, I64FromInt(-1), I64Max}
      [] dt = "time" -> {<<0, 0, 0, 0>>, <<23, 59, 59, 999000>>}
      [] dt = "timestamp" -> {MIN_EPOCH_MS, I64Zero, MAX_EPOCH_MS}

(* the arguments Record(type, values) accepts for a column *)
ColumnArgs(def) ==
    {Obj(v) : v \in Representable(def.data_type)}
        \cup (IF def.is_nullable THEN {NONE} ELSE {})

(* all tuples <<a1, .., an>> with ai \in ColumnArgs(type[i]) *)
RECURSIVE RecordArgs(_)
RecordArgs(type) ==
    IF type = << >> THEN {<< >>}
    ELSE {<<a>> \o rest : a \in ColumnArgs(Head(type)), rest \in RecordArgs(Tail(type))}

(* the host values of a record, each built as _Record_get_value does *)
HostValues(r) == [i \in DOMAIN r.type |-> Record_get_value(r, i).r.values[i]]

(* ------------------------------------------------------------------ *)
(* State                                                               *)
(* ------------------------------------------------------------------ *)
VARIABLES
    rec,    \* the Record under test
    step,   \* the last operation applied to it
    enc,    \* result of Record.encode(): [err, out, size]
    wire,   \* bytes write_record produced in a buffer with Slack spare bytes
    dec,    \* result of decoding into a fresh Record: [err, r]
    gil,    \* the thread holding the runtime lock, "free" when none does
    arr,    \* an object_array of Records being encoded by Schema.encode
    resp,   \* the buffer (and schema fields or ranges) given to a decoder
    fds,    \* what RecordType.from_dynamic_schema returned for resp
    call,   \* the running decode_records / decode_dynamic_records call
    sch,    \* a Schema call: construction, encode, decode
    prim,   \* one call of an avro.c or dt.c function: its inputs and result
    mem     \* a Record at the level of pointers, with the heap it points into

vars == <<rec, step, enc, wire, dec, gil, arr, resp, fds, call, sch, prim, mem>>

(* the variables a specification of one part leaves alone *)
notRecordVars == <<gil, arr, resp, fds, call, sch, prim, mem>>
notArrayVars == <<rec, step, enc, wire, dec, resp, fds, call, sch, prim, mem>>
notDynVars == <<rec, step, enc, wire, dec, arr, sch, prim, mem>>

NoEnc == [err |-> ERR_NONE, out |-> << >>, size |-> 0]
NoDec == [err |-> ERR_NONE, r |-> Record_new(<< >>)]

(* the parts a specification does not exercise *)
RecordIdle ==
    /\ rec = Record_new(<< >>)
    /\ step = "idle"
    /\ enc = NoEnc
    /\ wire = << >>
    /\ dec = NoDec

ArrayIdle == arr = [pc |-> "idle"]

DynIdle ==
    /\ resp = [kind |-> "none"]
    /\ fds = [called |-> FALSE]
    /\ call = [pc |-> "idle"]

SchemaIdle == sch = [pc |-> "idle"]

PrimIdle == prim = [op |-> "idle"]

MemIdle == mem = [pc |-> "idle"]

(* ------------------------------------------------------------------ *)
(* Codec specification: construct a record, encode it (Record.encode,  *)
(* or write_record into a larger buffer as schema.c does), decode the  *)
(* bytes or a proper prefix of them into a fresh record                *)
(* ------------------------------------------------------------------ *)
CodecInit ==
    /\ \E t \in RecordTypes : rec = Record_new(t)
    /\ step = "new"
    /\ enc = NoEnc
    /\ wire = << >>
    /\ dec = NoDec
    /\ gil = "caller"
    /\ ArrayIdle
    /\ DynIdle
    /\ SchemaIdle
    /\ PrimIdle
    /\ MemIdle

(* Record(type, values): Record_init with a list of values *)
Populate ==
    /\ step = "new"
    /\ \E args \in RecordArgs(rec.type) :
          LET Set(s) == s.ok /\ rec' = s.r
          IN  Set(Record_set_sequence(rec, args))
    /\ step' = "set"
    /\ UNCHANGED <<enc, wire, dec>>
    /\ UNCHANGED notRecordVars

(* Record.encode() *)
Encode ==
    /\ step \in {"new", "set"}
    /\ LET Result(e) ==
               /\ rec' = e.r
               /\ enc' = [err |-> e.err, out |-> e.out, size |-> e.size]
       IN  Result(Record_encode(rec))
    /\ step' = "encoded"
    /\ UNCHANGED <<wire, dec>>
    /\ UNCHANGED notRecordVars

(* Record.decode(bytes) on a fresh record of the same type *)
DecodeEncoded ==
    /\ step = "encoded"
    /\ enc.err = ERR_NONE
    /\ dec' = Record_decode(Record_new(rec.type), enc.out)
    /\ step' = "decoded"
    /\ UNCHANGED <<rec, enc, wire>>
    /\ UNCHANGED notRecordVars

(* size_record then write_record into a buffer with room to spare *)
WriteRecord ==
    /\ step \in {"new", "set"}
    /\ LET Written(s, w) ==
               /\ w.err = ERR_NONE
               /\ rec' = s.r
               /\ wire' = w.out
           Sized(s) == Written(s, write_record(<< >>, s.size + Slack, s.r))
       IN  Sized(size_record(rec))
    /\ step' = "written"
    /\ UNCHANGED <<enc, dec>>
    /\ UNCHANGED notRecordVars

DecodeWire ==
    /\ step = "written"
    /\ dec' = Record_decode(Record_new(rec.type), wire)
    /\ step' = "read"
    /\ UNCHANGED <<rec, enc, wire>>
    /\ UNCHANGED notRecordVars

(* decoding the first k bytes only, k < Len(wire) *)
DecodePrefix ==
    /\ step = "written"
    /\ \E k \in 0..(Len(wire) - 1) :
          /\ dec' = Record_decode(Record_new(rec.type), SubSeq(wire, 1, k))
          /\ wire' = SubSeq(wire, 1, k)
    /\ step' = "prefix"
    /\ UNCHANGED <<rec, enc>>
    /\ UNCHANGED notRecordVars

CodecNext ==
    \/ Populate
    \/ Encode
    \/ DecodeEncoded
    \/ WriteRecord
    \/ DecodeWire
    \/ DecodePrefix

CodecSpec == CodecInit /\ [][CodecNext]_vars

(* C1: for every column kind, nullable or not, and every representable *)
(* value (or null), Record.encode succeeds and decoding its bytes into *)
(* a fresh record of the same type succeeds and yields host values     *)
(* equal to the originals                                              *)
C1_RoundTrip ==
    /\ step = "encoded" => enc.err = ERR_NONE
    /\ step = "decoded" => dec.err = ERR_NONE /\ HostValues(dec.r) = HostValues(rec)

(* C2: write_record into a buffer of exactly size_record(record) bytes *)
(* returns ok with the cursor at the end of the buffer, so             *)
(* Record.encode never fails for lack of room                          *)
C2_ExactFit ==
    step = "encoded" => enc.err = ERR_NONE /\ Len(enc.out) = enc.size

(* C5: decoding a proper prefix of a valid encoded record returns      *)
(* ERR_EOF, whatever the record type and the cut position              *)
C5_PrefixIsEOF ==
    step = "prefix" => dec.err = ERR_EOF

(* a two-column record cut after its first byte or later was decoded   *)
C5_PrefixDecoded ==
    /\ step = "prefix"
    /\ Len(rec.type) = 2
    /\ Len(wire) >= 1
    /\ dec.err = ERR_EOF

(* ------------------------------------------------------------------ *)
(* Record specification: one Record object under item and slice        *)
(* assignment, update, item access, encode and decode; step names the  *)
(* last operation, enc / wire / dec hold what it returned or was given *)
(* ------------------------------------------------------------------ *)
UpdateTypes ==
    {<<Column("int8", FALSE), Column("string", TRUE)>>,
     <<Column("int8", FALSE), Column("string", TRUE), Column("char1", FALSE)>>}

(* what may be assigned to a column: its representable values, None,   *)
(* a deletion, for the small integer kinds a value out of range and an *)
(* object that is no number, for the small char kinds a string one     *)
(* longer than the column                                              *)
AssignArgs(def) ==
    ColumnArgs(def) \cup {NONE, NULLV}
        \cup (IF def.data_type \in {"int8", "int16"}
              THEN {Obj(IntMax(def.data_type) + 1), Unconvertible} ELSE {})
        \cup (IF def.data_type \in SmallChars
              THEN {Obj([k \in 1..(CharSize(def.data_type) + 1) |-> 96 + k])} ELSE {})

(* buffers given to Record.decode: the encodings of the records of the *)
(* type, every prefix of them, and their first byte followed by a null *)
(* tag of 2                                                            *)
DecodeInputs(type) ==
    LET Bytes(r) == write_record(<< >>, size_record(r).size + Slack, r).out
        Cuts(w) == {SubSeq(w, 1, k) : k \in 0..Len(w)} \cup {SubSeq(w, 1, 1) \o <<4>>}
    IN  UNION {Cuts(Bytes(Record_set_sequence(Record_new(type), a).r)) :
                  a \in RecordArgs(type)}

RecordInit ==
    /\ \E t \in UpdateTypes : rec = Record_new(t)
    /\ step = "new"
    /\ enc = NoEnc
    /\ wire = << >>
    /\ dec = NoDec
    /\ gil = "caller"
    /\ ArrayIdle
    /\ DynIdle
    /\ SchemaIdle
    /\ PrimIdle
    /\ MemIdle

(* record[index] = value, del record[index]; step tells an IndexError *)
(* and a refused value from a completed assignment                     *)
AssItem ==
    /\ \E index \in 0..(Len(rec.type) + 1) :
          \E value \in AssignArgs(rec.type[IF index \in DOMAIN rec.type THEN index ELSE 1]) :
             LET Result(s) ==
                     /\ rec' = s.r
                     /\ step' = IF s.ok THEN "ass_item"
                                ELSE IF index \in DOMAIN rec.type THEN "ass_item_failed"
                                ELSE "ass_item_index"
             IN  Result(Record_ass_item(rec, index, value))
    /\ enc' = NoEnc /\ wire' = << >> /\ dec' = NoDec
    /\ UNCHANGED notRecordVars

(* record[start:stop] = values, del record[start:stop] *)
AssSlice ==
    /\ \E start \in DOMAIN rec.type :
          \E slicelength \in 0..(Len(rec.type) - start + 1) :
             \/ rec' = Record_ass_slice(rec, start, slicelength, TRUE, << >>).r
             \/ \E vals \in RecordArgs(SubSeq(rec.type, start, start + slicelength - 1))
                                \cup {<< >>} :
                   rec' = Record_ass_slice(rec, start, slicelength, FALSE, vals).r
    /\ step' = "ass_slice"
    /\ enc' = NoEnc /\ wire' = << >> /\ dec' = NoDec
    /\ UNCHANGED notRecordVars

(* record.update(list), with as many values as columns or one fewer,  *)
(* the last of them optionally an object its column refuses; step     *)
(* tells a failed call from a completed one                            *)
UpdateSequence ==
    /\ \E n \in {Len(rec.type) - 1, Len(rec.type)} :
          \E vals \in RecordArgs(SubSeq(rec.type, 1, n)) :
             \E refused \in BOOLEAN :
                LET Result(s) ==
                        /\ rec' = s.r
                        /\ step' = IF s.ok THEN "update" ELSE "update_failed"
                IN  Result(Record_update(rec, FALSE,
                               IF refused THEN [vals EXCEPT ![n] = Unconvertible]
                               ELSE vals))
    /\ enc' = NoEnc /\ wire' = << >> /\ dec' = NoDec
    /\ UNCHANGED notRecordVars

(* record.update(dict) with one known key, optionally followed by a    *)
(* key that names no column (index 0)                                  *)
UpdateMapping ==
    /\ \E index \in DOMAIN rec.type :
          \E value \in ColumnArgs(rec.type[index]) :
             \E unknown \in BOOLEAN :
                LET Result(s) ==
                        /\ rec' = s.r
                        /\ step' = IF s.ok THEN "update" ELSE "update_failed"
                IN  Result(Record_update(rec, TRUE,
                               IF unknown THEN << <<index, value>>, <<0, NONE>> >>
                               ELSE << <<index, value>> >>))
    /\ enc' = NoEnc /\ wire' = << >> /\ dec' = NoDec
    /\ UNCHANGED notRecordVars

(* record[index]: builds and caches the host value *)
GetItem ==
    /\ \E index \in DOMAIN rec.type : rec' = Record_get_value(rec, index).r
    /\ step' = "get"
    /\ enc' = NoEnc /\ wire' = << >> /\ dec' = NoDec
    /\ UNCHANGED notRecordVars

(* record.encode() *)
EncodeRecord ==
    /\ LET Result(e) ==
               /\ rec' = e.r
               /\ enc' = [err |-> e.err, out |-> e.out, size |-> e.size]
       IN  Result(Record_encode(rec))
    /\ step' = "encoded"
    /\ wire' = << >> /\ dec' = NoDec
    /\ UNCHANGED notRecordVars

(* record.decode(buffer) into the record itself *)
DecodeRecord ==
    /\ \E buf \in DecodeInputs(rec.type) :
          LET Result(d) ==
                  /\ rec' = d.r
                  /\ dec' = d
                  /\ step' = IF d.err = ERR_NONE THEN "decoded" ELSE "decode_failed"
          IN  /\ Result(Record_decode(rec, buf))
              /\ wire' = buf
    /\ enc' = NoEnc
    /\ UNCHANGED notRecordVars

RecordNext ==
    \/ AssItem
    \/ AssSlice
    \/ UpdateSequence
    \/ UpdateMapping
    \/ GetItem
    \/ EncodeRecord
    \/ DecodeRecord

RecordSpec == RecordInit /\ [][RecordNext]_vars

(* C3: when Record.decode fails, every cell decoded before the failing *)
(* column is cleared again, so that the record is left with all of its *)
(* cells in the cleared state and holds no value from the failed input *)
C3_FailedDecodeClears ==
    step = "decode_failed" => rec.cells = Record_new(rec.type).cells

(* C4: after any sequence of item and slice assignments, deletions,    *)
(* updates, item reads, encodes and decodes the cached size is 0       *)
(* (unknown) or the size computed from the current cells               *)
C4_SizeCache ==
    rec.size = 0 \/ rec.size = size_record_loop(rec, 1, 0)

(* a record holding a value was encoded, and its cached size is the    *)
(* length of the encoding                                              *)
C4_SizeCached ==
    /\ step = "encoded"
    /\ enc.err = ERR_NONE
    /\ rec.size > 0
    /\ rec.size = Len(enc.out)
    /\ \E i \in DOMAIN rec.type : rec.values[i] \notin {NULLV, NONE}

(* ------------------------------------------------------------------ *)
(* schema.c: Schema.encode of an object_array whose items are Records. *)
(* arr = [pc, records, i, size, out, max, error, written, sets]: the   *)
(* Record objects of the list (shared with every other thread), the    *)
(* locals of write_object_array_schema, the buffer of Schema_encode,   *)
(* what was put on the wire for each record ([size, bytes]) and the    *)
(* number of assignments made by another thread                        *)
(* ------------------------------------------------------------------ *)
(* the loop of prepare_object_array_schema over records i .. count:    *)
(* [records, size]; size_record caches the size in each record         *)
RECURSIVE prepare_object_array_loop(_, _, _)
prepare_object_array_loop(records, i, size) ==
    LET Sized(s) ==
            prepare_object_array_loop([records EXCEPT ![i] = s.r], i + 1,
                                      size + s.size + size_long(I64FromInt(s.size)))
    IN  IF i > Len(records) THEN [records |-> records, size |-> size]
        ELSE Sized(size_record(records[i]))

prepare_object_array_schema(records) ==
    LET Total(p) ==
            [records |-> p.records,
             size |-> p.size + size_long(I64FromInt(Len(records)))
                         + (IF Len(records) > 0 THEN 1 ELSE 0)]
    IN  Total(prepare_object_array_loop(records, 1, 0))

(* most records in an object_array *)
MaxRecords == 2

(* most assignments the other thread makes during one encode *)
MaxSets == 1

ArrayTypes ==
    {<<Column("string", TRUE)>>, <<Column("int8", FALSE), Column("string", TRUE)>>}

ArrayInit ==
    /\ \E t \in ArrayTypes :
          \E n \in 0..MaxRecords :
             \E a \in [1..n -> RecordArgs(t)] :
                arr = [pc |-> "prepare",
                       records |-> [k \in 1..n |->
                                       Record_set_sequence(Record_new(t), a[k]).r],
                       i |-> 0, size |-> 0, out |-> << >>, max |-> 0,
                       error |-> ERR_NONE, written |-> << >>, sets |-> 0]
    /\ gil = "encoder"
    /\ RecordIdle
    /\ DynIdle
    /\ SchemaIdle
    /\ PrimIdle
    /\ MemIdle

(* Schema_encode: prepare_schema, then a buffer of exactly size bytes *)
Prepare ==
    /\ arr.pc = "prepare"
    /\ gil = "encoder"
    /\ LET Buffer(p) ==
               arr' = [arr EXCEPT !.pc = "write", !.records = p.records,
                                  !.max = p.size]
       IN  Buffer(prepare_object_array_schema(arr.records))
    /\ UNCHANGED <<gil, notArrayVars>>

(* write_object_array_schema up to Py_BEGIN_ALLOW_THREADS *)
WriteBegin ==
    /\ arr.pc = "write"
    /\ gil = "encoder"
    /\ LET Count(w) ==
               IF w.err # ERR_NONE
               THEN /\ arr' = [arr EXCEPT !.pc = "failed", !.error = w.err]
                    /\ gil' = gil
               ELSE IF Len(arr.records) = 0
               THEN /\ arr' = [arr EXCEPT !.pc = "done", !.out = w.out]
                    /\ gil' = gil
               ELSE /\ arr' = [arr EXCEPT !.pc = "size", !.out = w.out, !.i = 0]
                    /\ gil' = "free"
       IN  Count(write_size(arr.out, arr.max, Len(arr.records)))
    /\ UNCHANGED notArrayVars

(* size = size_record(record); error = write_size(pos, max, size) *)
WriteSize ==
    /\ arr.pc = "size"
    /\ LET Prefix(s, w) ==
               arr' = [arr EXCEPT !.records[arr.i + 1] = s.r,
                                  !.size = s.size,
                                  !.out = w.out,
                                  !.error = w.err,
                                  !.pc = IF w.err # ERR_NONE THEN "end" ELSE "record"]
           Sized(s) == Prefix(s, write_size(arr.out, arr.max, s.size))
       IN  Sized(size_record(arr.records[arr.i + 1]))
    /\ UNCHANGED <<gil, notArrayVars>>

(* error = write_record(pos, max, record); ++i *)
WriteItem ==
    /\ arr.pc = "record"
    /\ LET Item(w) ==
               arr' = [arr EXCEPT
                          !.out = w.out,
                          !.error = w.err,
                          !.written = Append(@, [size |-> arr.size,
                                                 bytes |-> Len(w.out) - Len(arr.out)]),
                          !.i = IF w.err # ERR_NONE THEN @ ELSE @ + 1,
                          !.pc = IF w.err = ERR_NONE /\ arr.i + 1 < Len(arr.records)
                                 THEN "size" ELSE "end"]
       IN  Item(write_record(arr.out, arr.max, arr.records[arr.i + 1]))
    /\ UNCHANGED <<gil, notArrayVars>>

(* Py_END_ALLOW_THREADS, handle_write_error, the closing write_size(0) *)
WriteEnd ==
    /\ arr.pc = "end"
    /\ gil = "free"
    /\ gil' = "encoder"
    /\ LET Close(w) ==
               arr' = [arr EXCEPT !.out = w.out, !.error = w.err,
                                  !.pc = IF w.err # ERR_NONE THEN "failed" ELSE "done"]
       IN  IF arr.error # ERR_NONE THEN arr' = [arr EXCEPT !.pc = "failed"]
           ELSE Close(write_size(arr.out, arr.max, 0))
    /\ UNCHANGED notArrayVars

(* another thread takes the runtime lock and runs record[index] = value *)
(* on one of the Records of the list (Record_ass_item); the steps of    *)
(* the writer are not split further, so an assignment falls between two *)
(* of its calls and never inside one                                    *)
OtherAssItem ==
    /\ gil = "free"
    /\ arr.pc \in {"size", "record", "end"}
    /\ arr.sets < MaxSets
    /\ gil' = "other"
    /\ \E k \in DOMAIN arr.records :
          \E index \in DOMAIN arr.records[k].type :
             \E value \in ColumnArgs(arr.records[k].type[index]) :
                arr' = [arr EXCEPT
                           !.records[k] = Record_ass_item(arr.records[k], index, value).r,
                           !.sets = @ + 1]
    /\ UNCHANGED notArrayVars

(* the other thread gives the runtime lock back *)
OtherYield ==
    /\ gil = "other"
    /\ gil' = "free"
    /\ UNCHANGED <<arr, notArrayVars>>

ArrayNext ==
    \/ Prepare
    \/ WriteBegin
    \/ WriteSize
    \/ WriteItem
    \/ WriteEnd
    \/ OtherAssItem
    \/ OtherYield

ArraySpec == ArrayInit /\ [][ArrayNext]_vars

(* C6: while the write pass runs with the runtime lock released no     *)
(* other thread changes the records it reads, so that for each record  *)
(* the length prefix written equals the number of bytes write_record   *)
(* then writes for it                                                  *)
C6_PrefixIsLength ==
    \A k \in DOMAIN arr.written : arr.written[k].size = arr.written[k].bytes

(* ------------------------------------------------------------------ *)
(* avro.c: skipping.  A skip returns [err, pos].                       *)
(* ------------------------------------------------------------------ *)
skip_bytes(buf, pos, max) ==
    LET Check(r) ==
            IF r.err # ERR_NONE THEN [err |-> r.err, pos |-> r.pos]
            ELSE IF I64Neg(r.val) THEN [err |-> ERR_OVERFLOW, pos |-> r.pos]
            ELSE IF ~I64Small(r.val) \/ r.pos + I64ToInt(r.val) > max
                 THEN [err |-> ERR_EOF, pos |-> r.pos]
            ELSE [err |-> ERR_NONE, pos |-> r.pos + I64ToInt(r.val)]
    IN  Check(read_size(buf, pos, max))

(* skip_double / skip_float *)
skip_fixed(buf, pos, max, n) ==
    IF pos + n > max THEN [err |-> ERR_EOF, pos |-> pos]
    ELSE [err |-> ERR_NONE, pos |-> pos + n]

skip_int(buf, pos, max) ==
    LET Drop(r) == [err |-> r.err, pos |-> r.pos]
    IN  Drop(read_int(buf, pos, max))

skip_long(buf, pos, max) ==
    LET Drop(r) == [err |-> r.err, pos |-> r.pos]
    IN  Drop(read_long(buf, pos, max))

(* ------------------------------------------------------------------ *)
(* record.c: RecordType.from_dynamic_schema.  The JSON schema is taken *)
(* as parsed: fields holds [data_type, is_nullable] of each column     *)
(* field; the two trailing fields, column_headers and column_datatypes,*)
(* are arrays of string.  A name is kept as its UTF-8 bytes.  Errors   *)
(* are an AvroErrorCode or the message of the exception raised.        *)
(* ------------------------------------------------------------------ *)
column_data_type_names ==
    << <<98, 121, 116, 101, 115>>,
       <<99, 104, 97, 114, 49>>,
       <<99, 104, 97, 114, 50>>,
       <<99, 104, 97, 114, 52>>,
       <<99, 104, 97, 114, 56>>,
       <<99, 104, 97, 114, 49, 54>>,
       <<99, 104, 97, 114, 51, 50>>,
       <<99, 104, 97, 114, 54, 52>>,
       <<99, 104, 97, 114, 49, 50, 56>>,
       <<99, 104, 97, 114, 50, 53, 54>>,
       <<100, 97, 116, 101>>,
       <<100, 97, 116, 101, 116, 105, 109, 101>>,
       <<100, 111, 117, 98, 108, 101>>,
       <<102, 108, 111, 97, 116>>,
       <<105, 110, 116>>,
       <<105, 110, 116, 56>>,
       <<105, 110, 116, 49, 54>>,
       <<108, 111, 110, 103>>,
       <<115, 116, 114, 105, 110, 103>>,
       <<116, 105, 109, 101>>,
       <<116, 105, 109, 101, 115, 116, 97, 109, 112>> >>

(* lookup_string(value, column_data_type_names, CDT_MAX) *)
lookup_string(value) ==
    LET found == {k \in DOMAIN column_data_type_names : column_data_type_names[k] = value}
    IN  IF found = {} THEN "CDT_MAX" ELSE ColumnDataType[CHOOSE k \in found : TRUE]

(* handle_read_error: the exception set for an AvroErrorCode; a message *)
(* raised by a CHECK of the caller is passed on                         *)
handle_read_error(error) ==
    CASE error = ERR_NONE -> ""
      [] error = ERR_OOM -> "MemoryError"
      [] error = ERR_EOF -> "incomplete binary data"
      [] error = ERR_OVERFLOW -> "invalid binary data"
      [] OTHER -> error

(* the number of turns of while (count > 0) { .. --count; } for a      *)
(* Py_ssize_t count: none for count <= 0, and -1 for a count beyond    *)
(* the 32-bit range, which no buffer holds elements for                *)
LoopCount(count) ==
    IF I64Neg(count) THEN 0
    ELSE IF I64Small(count) THEN I64ToInt(count)
    ELSE -1

(* while (count > 0) of the skip phase: [err, pos] *)
RECURSIVE skip_values(_, _, _, _, _)
skip_values(buf, pos, max, def, count) ==
    LET Less == IF count < 0 THEN count ELSE count - 1
        Next(r) ==
            IF r.err # ERR_NONE THEN r
            ELSE skip_values(buf, r.pos, max, def, Less)
        Value(p) ==
            CASE def.data_type \in {"bytes", "string"} -> Next(skip_bytes(buf, p, max))
              [] def.data_type = "double" -> Next(skip_fixed(buf, p, max, 8))
              [] def.data_type = "float" -> Next(skip_fixed(buf, p, max, 4))
              [] def.data_type = "int" -> Next(skip_int(buf, p, max))
              [] def.data_type = "long" -> Next(skip_long(buf, p, max))
              [] OTHER -> [err |-> "field has invalid data type", pos |-> p]
        IsNull(t) ==
            IF t.err # ERR_NONE THEN [err |-> t.err, pos |-> t.pos]
            ELSE IF t.val = I64FromInt(1) THEN skip_values(buf, t.pos, max, def, Less)
            ELSE IF t.val # I64Zero THEN [err |-> ERR_OVERFLOW, pos |-> t.pos]
            ELSE Value(t.pos)
    IN  IF count = 0 THEN [err |-> ERR_NONE, pos |-> pos]
        ELSE IF def.is_nullable THEN IsNull(read_long(buf, pos, max))
        ELSE Value(pos)

(* while (1) of the skip phase for one column: [err, pos].  A block    *)
(* with count < 0 is skipped by its byte size: pos += size             *)
RECURSIVE skip_column(_, _, _, _)
skip_column(buf, pos, max, def) ==
    LET Values(v) ==
            IF v.err # ERR_NONE THEN v ELSE skip_column(buf, v.pos, max, def)
        Size(s) ==
            IF s.err # ERR_NONE THEN [err |-> s.err, pos |-> s.pos]
            ELSE IF ~I64Neg(s.val) /\ (~I64Small(s.val) \/ s.pos + I64ToInt(s.val) > max)
                 THEN [err |-> ERR_EOF, pos |-> s.pos]
            ELSE skip_column(buf, s.pos + I64ToInt(s.val), max, def)
        Count(c) ==
            IF c.err # ERR_NONE THEN [err |-> c.err, pos |-> c.pos]
            ELSE IF c.val = I64Zero THEN [err |-> ERR_NONE, pos |-> c.pos]
            ELSE IF I64Neg(c.val) THEN Size(read_long(buf, c.pos, max))
            ELSE Values(skip_values(buf, c.pos, max, def, LoopCount(c.val)))
    IN  Count(read_size(buf, pos, max))

(* the loop over the column fields from field i on: [err, pos, ends],  *)
(* ends holding the cursor after each column skipped                   *)
RECURSIVE skip_columns(_, _, _, _, _, _)
skip_columns(buf, pos, max, fields, i, ends) ==
    LET Skipped(s) ==
            IF s.err # ERR_NONE THEN [err |-> s.err, pos |-> s.pos, ends |-> ends]
            ELSE skip_columns(buf, s.pos, max, fields, i + 1, Append(ends, s.pos))
    IN  IF i > Len(fields) THEN [err |-> ERR_NONE, pos |-> pos, ends |-> ends]
        ELSE Skipped(skip_column(buf, pos, max, fields[i]))

(* while (count > 0) of the column_headers / column_datatypes arrays:  *)
(* [err, pos, items]                                                   *)
RECURSIVE read_strings(_, _, _, _, _, _, _)
read_strings(buf, pos, max, what, field_count, items, count) ==
    LET Data(l) ==
            IF l.err # ERR_NONE THEN [err |-> l.err, pos |-> l.pos, items |-> items]
            ELSE IF ~IsUtf8(SubSeqFrom(buf, l.pos, l.val))
                 THEN [err |-> "UnicodeDecodeError", pos |-> l.pos + l.val, items |-> items]
            ELSE read_strings(buf, l.pos + l.val, max, what, field_count,
                              Append(items, SubSeqFrom(buf, l.pos, l.val)),
                              IF count < 0 THEN count ELSE count - 1)
    IN  IF count = 0 THEN [err |-> ERR_NONE, pos |-> pos, items |-> items]
        ELSE IF Len(items) >= field_count
             THEN [err |-> what \o " field has too many values", pos |-> pos,
                   items |-> items]
        ELSE Data(read_bytes_len(buf, pos, max))

(* while (1) of the column_headers / column_datatypes arrays and the   *)
(* check that follows it.  A block with count < 0 carries a byte size  *)
(* that is read and dropped                                            *)
RECURSIVE read_string_array(_, _, _, _, _, _)
read_string_array(buf, pos, max, what, field_count, items) ==
    LET Items(r) ==
            IF r.err # ERR_NONE THEN r
            ELSE read_string_array(buf, r.pos, max, what, field_count, r.items)
        Size(c, s) ==
            IF s.err # ERR_NONE THEN [err |-> s.err, pos |-> s.pos, items |-> items]
            ELSE Items(read_strings(buf, s.pos, max, what, field_count, items,
                                    LoopCount(I64Negate(c.val))))
        Count(c) ==
            IF c.err # ERR_NONE THEN [err |-> c.err, pos |-> c.pos, items |-> items]
            ELSE IF c.val = I64Zero
                 THEN [err |-> IF Len(items) = field_count THEN ERR_NONE
                               ELSE what \o " field has too few values",
                       pos |-> c.pos, items |-> items]
            ELSE IF I64Neg(c.val) THEN Size(c, read_long(buf, c.pos, max))
            ELSE Items(read_strings(buf, c.pos, max, what, field_count, items,
                                    LoopCount(c.val)))
    IN  Count(read_size(buf, pos, max))

(* mangle_name checking the candidate against the names read only *)
RECURSIVE mangle_name_raw_only(_, _, _, _)
mangle_name_raw_only(name, n, field_name_set, column_name_set) ==
    LET Try(temp) ==
            IF temp \in field_name_set
            THEN mangle_name_raw_only(name, n + 1, field_name_set, column_name_set)
            ELSE temp
    IN  Try(name \o <<95>> \o DecimalDigits(n))

(* for (n = 2; ; ++n): the first name_n that is neither among the     *)
(* names read (field_name_set) nor among the names already given       *)
(* (column_name_set)                                                   *)
RECURSIVE mangle_name(_, _, _, _)
mangle_name(name, n, field_name_set, column_name_set) ==
    LET Try(temp) ==
            IF temp \in field_name_set \/ temp \in column_name_set
            THEN mangle_name(name, n + 1, field_name_set, column_name_set)
            ELSE temp
    IN  Try(name \o <<95>> \o DecimalDigits(n))

(* the loop over the names read, from name i on: the names with every  *)
(* repeated one replaced                                               *)
RECURSIVE mangle_names(_, _, _, _)
mangle_names(names, i, field_name_set, column_name_set) ==
    LET Renamed(temp) ==
            mangle_names([names EXCEPT ![i] = temp], i + 1, field_name_set,
                         column_name_set \cup {temp})
    IN  IF i > Len(names) THEN names
        ELSE IF names[i] \notin column_name_set
             THEN mangle_names(names, i + 1, field_name_set,
                               column_name_set \cup {names[i]})
        ELSE Renamed(mangle_name(names[i], 2, field_name_set, column_name_set))

(* RecordType_new on a list of (name, data_type, properties) tuples,   *)
(* from column i on, each made a RecordColumn by RecordColumn_new:     *)
(* [err, columns]                                                      *)
RECURSIVE RecordType_new(_, _)
RecordType_new(columns, i) ==
    IF i > Len(columns) THEN [err |-> "", columns |-> columns]
    ELSE IF columns[i].name = << >>
         THEN [err |-> "name must not be empty", columns |-> << >>]
    ELSE IF columns[i].data_type = "CDT_MAX"
         THEN [err |-> "unknown data type", columns |-> << >>]
    ELSE IF \E k \in 1..(i - 1) : columns[k].name = columns[i].name
         THEN [err |-> "duplicate column name", columns |-> << >>]
    ELSE RecordType_new(columns, i + 1)

(* [err, ends, columns, released]: the error raised ("" for none), the *)
(* cursor after the data of each column skipped, the columns of the    *)
(* RecordType returned, [name, data_type, is_nullable], and how often  *)
(* PyBuffer_Release was called: once at the error label, never on the  *)
(* way to return result                                                *)
from_dynamic_schema(fields, buf) ==
    LET field_count == Len(fields)
        Fail(e, ends) ==
            [err |-> handle_read_error(e), ends |-> ends, columns |-> << >>,
             released |-> 1]
        Built(ends, t) ==
            [err |-> t.err, ends |-> ends, columns |-> t.columns, released |-> 0]
        Typed(i, name, data_type) ==
            [name |-> name,
             data_type |-> IF data_type # "CDT_MAX" THEN data_type
                           ELSE fields[i].data_type,
             is_nullable |-> fields[i].is_nullable]
        Types(ends, names, t) ==
            IF t.err # ERR_NONE THEN Fail(t.err, ends)
            ELSE Built(ends,
                       RecordType_new(
                           [i \in DOMAIN fields |->
                               Typed(i, names[i], lookup_string(t.items[i]))], 1))
        Names(ends, h) ==
            IF h.err # ERR_NONE THEN Fail(h.err, ends)
            ELSE Types(ends,
                       mangle_names(h.items, 1, {h.items[k] : k \in DOMAIN h.items}, {}),
                       read_string_array(buf, h.pos, Len(buf), "column_datatypes",
                                         field_count, << >>))
        Skipped(s) ==
            IF s.err # ERR_NONE THEN Fail(s.err, s.ends)
            ELSE Names(s.ends,
                       read_string_array(buf, s.pos, Len(buf), "column_headers",
                                         field_count, << >>))
    IN  IF field_count <= 0 THEN Fail("schema must have at least 3 fields", << >>)
        ELSE Skipped(skip_columns(buf, 0, Len(buf), fields, 1, << >>))

(* ------------------------------------------------------------------ *)
(* record.c: RecordType.decode_records and decode_dynamic_records.     *)
(* call = [fn, type, pc, pos, i, j, count, block_count, result, error, *)
(* unlocked, released] holds the RecordType the method is called on,   *)
(* the locals of the running call, the exception it raised, the        *)
(* host-runtime calls it made without holding the runtime lock, and    *)
(* how often it released the view of the buffer.  A thread is          *)
(* [gil, unlocked].                                                    *)
(* ------------------------------------------------------------------ *)
(* Py_BLOCK_THREADS and Py_END_ALLOW_THREADS: PyEval_RestoreThread *)
Py_BLOCK_THREADS(t) == [t EXCEPT !.gil = "caller"]

(* Py_UNBLOCK_THREADS and Py_BEGIN_ALLOW_THREADS: PyEval_SaveThread *)
Py_UNBLOCK_THREADS(t) == [t EXCEPT !.gil = "free"]

(* a call into the host runtime: allocation, reference counting,       *)
(* raising an exception, releasing a buffer                            *)
HostCall(t, op) ==
    IF t.gil = "caller" THEN t ELSE [t EXCEPT !.unlocked = @ \cup {op}]

(* Record_create: tp_alloc leaves every ColumnValue zeroed *)
Record_create(type) ==
    [type |-> type,
     cells |-> [i \in DOMAIN type |->
                   [len |-> 0, val |-> ZeroValue(type[i].data_type)]],
     values |-> [i \in DOMAIN type |-> NULLV],
     size |-> 0]

(* the state the step of a call ends in *)
Return(t, c) ==
    /\ gil' = t.gil
    /\ call' = [c EXCEPT !.unlocked = t.unlocked]

(* CHECK(.., error) failing: the exception is set, and at the error    *)
(* label the buffer is released and the result dropped                 *)
RaiseError(t, c, error) ==
    Return(HostCall(HostCall(HostCall(t, "PyErr_SetString"), "PyBuffer_Release"),
                    "Py_XDECREF"),
           [c EXCEPT !.pc = "failed", !.error = handle_read_error(error),
                     !.result = << >>, !.released = @ + 1])

(* most records a list is allocated for: PyList_New fails beyond *)
MaxRows == 2

(* while (block_count > 0) of decode_dynamic_records for column i      *)
(* (counted from 0), count being LoopCount(block_count):               *)
(* [err, pos, result, j].  PyList_GET_ITEM(result, j) with j past the  *)
(* end of the list is undefined: err = "out of bounds"                 *)
RECURSIVE read_values(_, _, _, _, _, _, _, _)
read_values(buf, pos, max, def, result, i, j, count) ==
    LET Less == IF count < 0 THEN count ELSE count - 1
        Stop(e, p) == [err |-> e, pos |-> p, result |-> result, j |-> j]
        Value(c) ==
            IF c.err # ERR_NONE THEN Stop(c.err, c.pos)
            ELSE read_values(buf, c.pos, max, def,
                             [result EXCEPT ![j + 1].cells[i + 1] = c.cell],
                             i, j + 1, Less)
        IsNull(t) ==
            IF t.err # ERR_NONE THEN Stop(t.err, t.pos)
            ELSE IF t.val = I64FromInt(1)
                 THEN read_values(buf, t.pos, max, def,
                                  [result EXCEPT ![j + 1].cells[i + 1].len = -1],
                                  i, j + 1, Less)
            ELSE IF t.val # I64Zero THEN Stop(ERR_OVERFLOW, t.pos)
            ELSE Value(read_column(def.data_type, buf, t.pos, max))
    IN  IF count = 0 THEN Stop(ERR_NONE, pos)
        ELSE IF j >= Len(result) THEN Stop("out of bounds", pos)
        ELSE IF def.is_nullable THEN IsNull(read_long(buf, pos, max))
        ELSE Value(read_column(def.data_type, buf, pos, max))

(* the RecordType decode_dynamic_records is called on: the one that    *)
(* from_dynamic_schema returned, or, when it raised, one constructed   *)
(* from the fields of the schema                                       *)
DynamicType ==
    IF fds.err # "" THEN resp.fields
    ELSE [i \in DOMAIN fds.columns |->
             [data_type |-> fds.columns[i].data_type,
              is_nullable |-> fds.columns[i].is_nullable]]

(* decode_dynamic_records up to Py_BEGIN_ALLOW_THREADS: the first      *)
(* block count is read and that many Records are created               *)
DynStart ==
    /\ call.pc = "idle"
    /\ resp.kind = "dynamic"
    /\ fds.called
    /\ LET t == [gil |-> gil, unlocked |-> {}]
           c == [fn |-> "decode_dynamic_records", type |-> DynamicType,
                 pc |-> "start", pos |-> 0,
                 i |-> 0, j |-> 0, count |-> 0, block_count |-> I64Zero,
                 result |-> << >>, error |-> "", unlocked |-> {}, released |-> 0]
           Alloc(r, count) ==
               IF I64Neg(count) \/ ~I64Small(count) \/ I64ToInt(count) > MaxRows
               THEN RaiseError(HostCall(t, "PyList_New"), c, ERR_OOM)
               ELSE Return(Py_UNBLOCK_THREADS(
                               HostCall(HostCall(t, "PyList_New"), "Record_create")),
                           [c EXCEPT !.pc = "block", !.pos = r.pos,
                                     !.count = I64ToInt(count),
                                     !.block_count = r.val,
                                     !.result = [k \in 1..I64ToInt(count) |->
                                                    Record_create(c.type)]])
           First(r) ==
               IF r.err # ERR_NONE THEN RaiseError(t, c, r.err)
               ELSE Alloc(r, IF I64Neg(r.val) THEN I64Negate(r.val) ELSE r.val)
       IN  First(read_size(resp.buf, 0, Len(resp.buf)))
    /\ UNCHANGED <<resp, fds, notDynVars>>

(* the head of for (i = 0; i < column_count; ++i) for a column after   *)
(* the first: its first block count is read; after the last column     *)
(* Py_END_ALLOW_THREADS and the return of the list                     *)
DynColumn ==
    /\ call.pc = "column"
    /\ LET t == [gil |-> gil, unlocked |-> call.unlocked]
           Count(r) ==
               IF r.err # ERR_NONE THEN RaiseError(Py_BLOCK_THREADS(t), call, r.err)
               ELSE Return(t, [call EXCEPT !.pc = "block", !.pos = r.pos,
                                           !.block_count = r.val, !.j = 0])
       IN  IF call.i >= Len(call.type)
           THEN Return(HostCall(Py_BLOCK_THREADS(t), "PyBuffer_Release"),
                       [call EXCEPT !.pc = "returned", !.released = @ + 1])
           ELSE Count(read_size(resp.buf, call.pos, Len(resp.buf)))
    /\ UNCHANGED <<resp, fds, notDynVars>>

(* the top of while (1): a block count of 0 ends the column, which     *)
(* must then have given a value to every record; a negative one is     *)
(* followed by a byte size that is read and dropped; a block that does *)
(* not fit the list goes on to grow it.  j + block_count overflowing   *)
(* is undefined: the test may come out either way                      *)
DynBlock ==
    /\ call.pc = "block"
    /\ LET t == [gil |-> gil, unlocked |-> call.unlocked]
           Fits(p, bc) ==
               Return(t, [call EXCEPT !.pc = "values", !.pos = p, !.block_count = bc])
           Grows(p, bc) ==
               Return(t, [call EXCEPT !.pc = "grow", !.pos = p, !.block_count = bc])
           Room(p, bc) ==
               IF I64Neg(bc) THEN Fits(p, bc)
               ELSE IF I64Less(I64Sub(I64Max, I64FromInt(call.j)), bc)
                    THEN Fits(p, bc) \/ Grows(p, bc)
               ELSE IF ~I64Small(bc) \/ call.j + I64ToInt(bc) > call.count
                    THEN Grows(p, bc)
               ELSE Fits(p, bc)
           Size(s) ==
               IF s.err # ERR_NONE THEN RaiseError(Py_BLOCK_THREADS(t), call, s.err)
               ELSE Room(s.pos, I64Negate(call.block_count))
       IN  IF call.block_count = I64Zero
           THEN IF call.j # call.count
                THEN RaiseError(HostCall(Py_BLOCK_THREADS(t), "format_string"), call,
                                "column has too few values")
                ELSE Return(t, [call EXCEPT !.pc = "column", !.i = @ + 1])
           ELSE IF I64Neg(call.block_count)
                THEN Size(read_long(resp.buf, call.pos, Len(resp.buf)))
           ELSE Room(call.pos, call.block_count)
    /\ UNCHANGED <<resp, fds, notDynVars>>

(* DynGrow without Py_BLOCK_THREADS *)
DynGrow_unblocked ==
    /\ call.pc = "grow"
    /\ LET t == [gil |-> gil, unlocked |-> call.unlocked]
           Grown(count) ==
               Return(Py_UNBLOCK_THREADS(
                          HostCall(HostCall(t, "PyList_New"), "Record_create")),
                      [call EXCEPT !.pc = "values", !.count = count,
                                   !.result = [k \in 1..count |->
                                                  IF k <= call.j THEN call.result[k]
                                                  ELSE Record_create(call.type)]])
       IN  IF call.i # 0
           THEN RaiseError(HostCall(t, "format_string"), call,
                           "column has too many values")
           ELSE IF ~I64Small(call.block_count)
                   \/ call.j + I64ToInt(call.block_count) > MaxRows
                THEN RaiseError(HostCall(t, "PyList_New"), call, ERR_OOM)
           ELSE Grown(call.j + I64ToInt(call.block_count))
    /\ UNCHANGED <<resp, fds, notDynVars>>

(* if (j + block_count > count): with the lock taken again, an error   *)
(* for a column after the first; for the first, a list of              *)
(* j + block_count records that keeps the j records read so far        *)
DynGrow ==
    /\ call.pc = "grow"
    /\ LET t == Py_BLOCK_THREADS([gil |-> gil, unlocked |-> call.unlocked])
           Grown(count) ==
               Return(Py_UNBLOCK_THREADS(
                          HostCall(HostCall(t, "PyList_New"), "Record_create")),
                      [call EXCEPT !.pc = "values", !.count = count,
                                   !.result = [k \in 1..count |->
                                                  IF k <= call.j THEN call.result[k]
                                                  ELSE Record_create(call.type)]])
       IN  IF call.i # 0
           THEN RaiseError(HostCall(t, "format_string"), call,
                           "column has too many values")
           ELSE IF ~I64Small(call.block_count)
                   \/ call.j + I64ToInt(call.block_count) > MaxRows
                THEN RaiseError(HostCall(t, "PyList_New"), call, ERR_OOM)
           ELSE Grown(call.j + I64ToInt(call.block_count))
    /\ UNCHANGED <<resp, fds, notDynVars>>

(* while (block_count > 0), then the count of the next block.  A       *)
(* PyList_GET_ITEM past the end of the list, which only a block count  *)
(* whose sum with j overflowed leads to, reads and writes through an   *)
(* indeterminate pointer: the call crashes or goes on corrupting       *)
(* memory ("undefined"), or the values of the block run out and the    *)
(* read error is raised                                                *)
DynValues ==
    /\ call.pc = "values"
    /\ LET t == [gil |-> gil, unlocked |-> call.unlocked]
           NextBlock(v, r) ==
               IF r.err # ERR_NONE THEN RaiseError(Py_BLOCK_THREADS(t), call, r.err)
               ELSE Return(t, [call EXCEPT !.pc = "block", !.pos = r.pos,
                                           !.block_count = r.val, !.j = v.j,
                                           !.result = v.result])
           Values(v) ==
               IF v.err = "out of bounds"
               THEN \/ Return(t, [call EXCEPT !.pc = "undefined", !.pos = v.pos,
                                              !.j = v.j, !.result = v.result])
                    \/ RaiseError(Py_BLOCK_THREADS(t), call, ERR_EOF)
                    \/ RaiseError(Py_BLOCK_THREADS(t), call, ERR_OVERFLOW)
               ELSE IF v.err # ERR_NONE
                    THEN RaiseError(Py_BLOCK_THREADS(t), call, v.err)
               ELSE NextBlock(v, read_size(resp.buf, v.pos, Len(resp.buf)))
       IN  Values(read_values(resp.buf, call.pos, Len(resp.buf),
                              call.type[call.i + 1], call.result, call.i, call.j,
                              LoopCount(call.block_count)))
    /\ UNCHANGED <<resp, fds, notDynVars>>

(* the ranges of decode_records: the whole buffer when none is given *)
RecordRanges ==
    IF resp.whole THEN <<[start |-> 0, length |-> Len(resp.buf)]>> ELSE resp.ranges

(* the CHECK_STRINGs on one BufferRange *)
RangeError(range, len) ==
    IF range.start < 0 \/ range.start > len THEN "start index out of range"
    ELSE IF range.length < 0 \/ range.start + range.length > len
         THEN "length out of range"
    ELSE ""

(* decode_records up to Py_BEGIN_ALLOW_THREADS: the ranges are checked *)
(* and one Record is created for each                                  *)
RecordsStart ==
    /\ call.pc = "idle"
    /\ resp.kind = "records"
    /\ LET t == [gil |-> gil, unlocked |-> {}]
           c == [fn |-> "decode_records", type |-> resp.type,
                 pc |-> "start", pos |-> 0,
                 i |-> 0, j |-> 0, count |-> 0, block_count |-> I64Zero,
                 result |-> << >>, error |-> "", unlocked |-> {}, released |-> 0]
           Checked(bad) ==
               IF bad # {}
               THEN RaiseError(HostCall(t, "PyMem_Free"), c,
                               RangeError(RecordRanges[CHOOSE k \in bad :
                                                          \A m \in bad : k <= m],
                                          Len(resp.buf)))
               ELSE Return(Py_UNBLOCK_THREADS(
                               HostCall(HostCall(t, "PyList_New"), "Record_create")),
                           [c EXCEPT !.pc = "read", !.count = Len(RecordRanges),
                                     !.result = [k \in DOMAIN RecordRanges |->
                                                    Record_create(c.type)]])
       IN  Checked({k \in DOMAIN RecordRanges :
                       RangeError(RecordRanges[k], Len(resp.buf)) # ""})
    /\ UNCHANGED <<resp, fds, notDynVars>>

(* for (i = 0; i < count; ++i) read_record(..), and after the last     *)
(* record Py_END_ALLOW_THREADS and the return of the list              *)
RecordsRead ==
    /\ call.pc = "read"
    /\ LET t == [gil |-> gil, unlocked |-> call.unlocked]
           Read(r) ==
               IF r.err # ERR_NONE THEN RaiseError(Py_BLOCK_THREADS(t), call, r.err)
               ELSE Return(t, [call EXCEPT !.i = @ + 1, !.pos = r.pos,
                                           !.result[call.i + 1] = r.r])
           Range(range) ==
               Read(read_record(resp.buf, range.start, range.start + range.length,
                                call.result[call.i + 1]))
       IN  IF call.i >= call.count
           THEN Return(HostCall(HostCall(Py_BLOCK_THREADS(t), "PyBuffer_Release"),
                                "PyMem_Free"),
                       [call EXCEPT !.pc = "returned", !.released = @ + 1])
           ELSE Range(RecordRanges[call.i + 1])
    /\ UNCHANGED <<resp, fds, notDynVars>>

(* RecordType.from_dynamic_schema(schema, buffer) *)
FromDynamicSchema ==
    /\ call.pc = "idle"
    /\ resp.kind = "dynamic"
    /\ ~fds.called
    /\ LET Result(f) ==
               fds' = [called |-> TRUE, err |-> f.err, ends |-> f.ends,
                       columns |-> f.columns, released |-> f.released]
       IN  Result(from_dynamic_schema(resp.fields, resp.buf))
    /\ UNCHANGED <<gil, resp, call, notDynVars>>

(* ------------------------------------------------------------------ *)
(* Decoder specification: a response buffer is given to                *)
(* from_dynamic_schema and decode_dynamic_records, or a buffer of      *)
(* records with their ranges to decode_records                         *)
(* ------------------------------------------------------------------ *)
MaxNames == 3

RECURSIVE Concat(_)
Concat(seqs) == IF seqs = << >> THEN << >> ELSE Head(seqs) \o Concat(Tail(seqs))

BytesOfLong(l) == write_long_loop(ZigZag(l), << >>)

(* the bytes of one value of a column, as write_record writes them *)
ValueBytes(def, a) ==
    write_record(<< >>, 64, Record_set_sequence(Record_new(<<def>>), <<a>>).r).out

(* the values a column of a response holds *)
DynArgs(def) ==
    IF def.data_type = "int" THEN {Obj(-1), Obj(64)} ELSE {NONE, Obj(<<97>>)}

(* the Avro array of a column holding the values, in one of the block  *)
(* layouts a server may choose ("plain": one block; "sized": one block *)
(* with a negative count and its byte size; "split": a block of one    *)
(* value and a block of the others) or a corrupt one ("unsized": a     *)
(* negative count with a byte size of 0; "huge": a block of the        *)
(* values and then a block count of 2^63 - 1)                          *)
ColumnBytes(def, values, layout) ==
    LET n == Len(values)
        data == [k \in 1..n |-> ValueBytes(def, values[k])]
        all == Concat(data)
    IN  CASE n = 0 -> <<0>>
          [] n > 0 /\ layout = "plain" -> BytesOfLong(I64FromInt(n)) \o all \o <<0>>
          [] n > 0 /\ layout = "sized" ->
                BytesOfLong(I64FromInt(-n)) \o BytesOfLong(I64FromInt(Len(all)))
                    \o all \o <<0>>
          [] n > 0 /\ layout = "unsized" ->
                BytesOfLong(I64FromInt(-n)) \o <<0>> \o all \o <<0>>
          [] n > 0 /\ layout = "split" ->
                BytesOfLong(I64FromInt(1)) \o data[1] \o BytesOfLong(I64FromInt(n - 1))
                    \o Concat(Tail(data)) \o <<0>>
          [] n > 0 /\ layout = "huge" ->
                BytesOfLong(I64FromInt(n)) \o all \o BytesOfLong(I64Max)

Layouts(n) ==
    IF n = 0 THEN {"plain"}
    ELSE {"plain", "sized", "unsized", "huge"} \cup (IF n >= 2 THEN {"split"} ELSE {})

(* the columns [values, layout] a response may hold for a field *)
DynColumns(def) ==
    UNION {{[values |-> v, layout |-> l] :
               v \in [1..n -> DynArgs(def)], l \in Layouts(n)} : n \in 0..MaxRows}

(* all tuples <<c1, .., cn>> with ci \in DynColumns(fields[i]) *)
RECURSIVE ResponseColumns(_)
ResponseColumns(fields) ==
    IF fields = << >> THEN {<< >>}
    ELSE {<<c>> \o rest : c \in DynColumns(Head(fields)),
                          rest \in ResponseColumns(Tail(fields))}

(* the Avro array of strings column_headers and column_datatypes are *)
StringArrayBytes(items) ==
    IF items = << >> THEN <<0>>
    ELSE BytesOfLong(I64FromInt(Len(items)))
             \o Concat([k \in DOMAIN items |->
                           BytesOfLong(I64FromInt(Len(items[k]))) \o items[k]])
             \o <<0>>

(* the name of a column data type in column_data_type_names *)
TypeName(dt) ==
    column_data_type_names[CHOOSE k \in DOMAIN ColumnDataType : ColumnDataType[k] = dt]

(* a dynamic-schema response: the column arrays, column_headers and    *)
(* column_datatypes                                                    *)
Response(fields, columns, names, types) ==
    [kind |-> "dynamic", fields |-> fields, columns |-> columns, names |-> names,
     types |-> types,
     buf |-> Concat([i \in DOMAIN fields |->
                        ColumnBytes(fields[i], columns[i].values, columns[i].layout)])
                 \o StringArrayBytes(names) \o StringArrayBytes(types)]

DynFields ==
    {<<Column("int", FALSE)>>,
     <<Column("int", FALSE), Column("string", TRUE)>>,
     <<Column("string", TRUE), Column("int", FALSE)>>}

(* responses with data: columns "a" and "b" of the types of the schema *)
DataResponses(f) ==
    {Response(f, c, [i \in DOMAIN f |-> <<96 + i>>],
              [i \in DOMAIN f |-> TypeName(f[i].data_type)]) :
        c \in ResponseColumns(f)}

(* the column names of the responses without data: "", "id", "id_2", *)
(* "id_3"                                                             *)
HeaderNames == {<< >>, <<105, 100>>, <<105, 100, 95, 50>>, <<105, 100, 95, 51>>}

(* the data types of the first column in the responses without data:   *)
(* the one of the schema, a narrower one, and one that is not a column *)
(* data type                                                           *)
HeaderTypes == {TypeName("int"), TypeName("int8"), <<63>>}

(* responses of no rows: up to MaxNames int columns of any names *)
HeaderResponses ==
    UNION {{Response([i \in 1..n |-> Column("int", FALSE)],
                     [i \in 1..n |-> [values |-> << >>, layout |-> "plain"]],
                     names,
                     [i \in 1..n |-> IF i = 1 THEN t ELSE TypeName("int")]) :
               names \in [1..n -> HeaderNames], t \in HeaderTypes} :
           n \in 1..MaxNames}

RecordsType == <<Column("int8", FALSE), Column("string", TRUE)>>

RecordsArgs == {<<Obj(-1), NONE>>, <<Obj(1), Obj(<<97>>)>>}

(* the ranges of the records of the lengths given, laid end to end *)
RECURSIVE RangesOf(_, _)
RangesOf(lengths, start) ==
    IF lengths = << >> THEN << >>
    ELSE <<[start |-> start, length |-> Head(lengths)]>>
             \o RangesOf(Tail(lengths), start + Head(lengths))

(* a buffer of encoded records given to decode_records with the ranges *)
(* of the records ("exact"), with the last range a byte short or a     *)
(* byte long, with the first range starting past the buffer, or with   *)
(* no ranges at all                                                    *)
RecordsResponse(args, ranges) ==
    LET data == [k \in DOMAIN args |->
                    write_record(<< >>, 64,
                                 Record_set_sequence(Record_new(RecordsType),
                                                     args[k]).r).out]
        exact == RangesOf([k \in DOMAIN data |-> Len(data[k])], 0)
        n == Len(exact)
    IN  [kind |-> "records", type |-> RecordsType, buf |-> Concat(data),
         whole |-> ranges = "whole",
         ranges |->
            CASE ranges = "short" -> [exact EXCEPT ![n].length = @ - 1]
              [] ranges = "long" -> [exact EXCEPT ![n].length = @ + 1]
              [] ranges = "outside" -> [exact EXCEPT ![1].start = Len(Concat(data)) + 1]
              [] OTHER -> exact]

RecordsResponses ==
    {RecordsResponse(a, r) :
        a \in UNION {[1..n -> RecordsArgs] : n \in 1..MaxRecords},
        r \in {"exact", "short", "long", "outside", "whole"}}

DynamicInit ==
    /\ \/ \E f \in DynFields : resp \in DataResponses(f)
       \/ resp \in HeaderResponses
       \/ resp \in RecordsResponses
    /\ fds = [called |-> FALSE]
    /\ call = [pc |-> "idle"]
    /\ gil = "caller"
    /\ RecordIdle
    /\ ArrayIdle
    /\ SchemaIdle
    /\ PrimIdle
    /\ MemIdle

DynamicNext ==
    \/ FromDynamicSchema
    \/ DynStart
    \/ DynColumn
    \/ DynBlock
    \/ DynGrow
    \/ DynValues
    \/ RecordsStart
    \/ RecordsRead

DynamicSpec == DynamicInit /\ [][DynamicNext]_vars

(* C7: in decode_records and decode_dynamic_records the runtime lock   *)
(* is released only once the initial records are allocated, no call    *)
(* into the host runtime (growing the list, creating records, raising  *)
(* an error, releasing the buffer) is made without the lock, and the   *)
(* lock is held when the call returns, with a list or with an error    *)
C7_LockHeld ==
    call.pc # "idle" =>
        /\ call.unlocked = {}
        /\ call.pc \in {"returned", "failed"} => gil = "caller"
        /\ gil = "free" => Len(call.result) = call.count

(* a dynamic decode that grew its list while reading the first column  *)
(* and returned it                                                     *)
C7_GrownAndReturned ==
    /\ call.pc = "returned"
    /\ call.fn = "decode_dynamic_records"
    /\ resp.columns[1].layout = "split"
    /\ Len(call.result) = 2
    /\ gil = "caller"

(* C8: decode_dynamic_records returns a list only if every column      *)
(* supplied, over all its blocks, as many values as the list has       *)
(* records; a block that would take a column past the records of the   *)
(* list never has its values read (it is an error, or, in the first    *)
(* column, the list is enlarged first), and once the first column is   *)
(* read the list keeps its length                                      *)
C8_ColumnsMatchList ==
    call.pc # "idle" /\ call.fn = "decode_dynamic_records" =>
        /\ call.pc = "returned" =>
               \A i \in DOMAIN resp.columns :
                   /\ resp.columns[i].layout # "huge"
                   /\ Len(resp.columns[i].values) = Len(call.result)
        /\ call.pc = "values" =>
               \/ I64Neg(call.block_count)
               \/ /\ I64Small(call.block_count)
                  /\ call.j + I64ToInt(call.block_count) <= Len(call.result)
        /\ call.pc # "undefined"
        /\ call.pc \in {"column", "block", "grow", "values"} /\ call.i >= 1 =>
               Len(call.result) = Len(resp.columns[1].values)
        /\ call.error = "column has too many values" => call.i >= 1

(* C9: the column-skip phase of from_dynamic_schema handles a block    *)
(* with a negative count as the decode phase does (byte size read and  *)
(* dropped, |count| elements skipped), so that after each column the   *)
(* cursor of the skip phase is where the decode of that column ends    *)
C9_SkipAsDecode ==
    call.pc = "column" /\ call.i >= 1 =>
        /\ Len(fds.ends) >= call.i
        /\ fds.ends[call.i] = call.pos

(* C10: for every column_headers list from_dynamic_schema gives the    *)
(* columns pairwise distinct names: the RecordType constructor never   *)
(* finds a duplicate, and the RecordType returned has none             *)
C10_DistinctNames ==
    fds.called =>
        /\ fds.err # "duplicate column name"
        /\ fds.err = "" =>
               \A i, j \in DOMAIN fds.columns :
                   i # j => fds.columns[i].name # fds.columns[j].name

(* a RecordType returned for headers with a repeated name and with the *)
(* name its first mangled form would be: "id", "id", "id_2"            *)
C10_MangledPastTaken ==
    /\ fds.called
    /\ fds.err = ""
    /\ resp.names = <<<<105, 100>>, <<105, 100>>, <<105, 100, 95, 50>>>>
    /\ fds.columns[2].name = <<105, 100, 95, 51>>

(* ------------------------------------------------------------------ *)
(* schema.c: the host objects Schema.encode takes and Schema.decode    *)
(* returns.  An object is [py, pv]: py names its type, pv is its value *)
(* (an int is a 64-bit word, or 11 limbs when it does not fit one; a   *)
(* float its 8 bytes; a str its UTF-8 bytes; a dict the sequence of    *)
(* its <<key, value>> items in insertion order).  PyNULL is the C NULL *)
(* pointer.                                                            *)
(* ------------------------------------------------------------------ *)
PyNULL == [py |-> "NULL"]
PyNone == [py |-> "None"]
PyBool(b) == [py |-> "bool", pv |-> b]
PyInt(l) == [py |-> "int", pv |-> l]
PyFloat(d) == [py |-> "float", pv |-> d]
PyStr(s) == [py |-> "str", pv |-> s]
PyBytes(b) == [py |-> "bytes", pv |-> b]
PyList(items) == [py |-> "list", pv |-> items]
PyTuple(items) == [py |-> "tuple", pv |-> items]
PyDict(items) == [py |-> "dict", pv |-> items]
PyRecord(r) == [py |-> "Record", pv |-> r]
PyRecordType(t) == [py |-> "RecordType", pv |-> t]
PySchema(s) == [py |-> "Schema", pv |-> s]

(* BufferRange_create(start, length) *)
BufferRange_create(start, length) == [py |-> "BufferRange", pv |-> <<start, length>>]

(* an int that PyLong_AsLongLong cannot hold: 2^64 *)
PyBigInt == PyInt(<<0, 0, 0, 0, 0, 0, 0, 0, 0, 2, 0>>)

SizedTypes == {"str", "bytes", "list", "tuple", "dict"}

(* PyObject_IsTrue, which fails for none of these objects *)
PyObject_IsTrue(value) ==
    CASE value.py = "None" -> FALSE
      [] value.py = "bool" -> value.pv
      [] value.py = "int" -> value.pv # I64Zero
      [] value.py = "float" -> value.pv # FloatTable[1].d
      [] value.py \in SizedTypes -> Len(value.pv) > 0
      [] OTHER -> TRUE

IsByte(o) == o.py = "int" /\ Len(o.pv) = 10 /\ I64Small(o.pv)
                /\ I64ToInt(o.pv) >= 0 /\ I64ToInt(o.pv) <= 255

(* PyObject_Bytes: [ok, object]; bytes(x) of a list or tuple of small ints *)
PyObject_Bytes(value) ==
    CASE value.py = "bytes" -> [ok |-> TRUE, object |-> value]
      [] value.py \in {"list", "tuple"} ->
            IF \A k \in DOMAIN value.pv : IsByte(value.pv[k])
            THEN [ok |-> TRUE,
                  object |-> PyBytes([k \in DOMAIN value.pv |->
                                         I64ToInt(value.pv[k].pv)])]
            ELSE [ok |-> FALSE, object |-> PyNULL]
      [] OTHER -> [ok |-> FALSE, object |-> PyNULL]

(* PyNumber_Float: [ok, object]; of the ints only 0 and 1 are          *)
(* tabulated, and the text of the model holds no numerals              *)
PyNumber_Float(value) ==
    CASE value.py = "float" -> [ok |-> TRUE, object |-> value]
      [] value.py = "bool" ->
            [ok |-> TRUE, object |-> PyFloat(FloatTable[IF value.pv THEN 2 ELSE 1].d)]
      [] value.py = "int" /\ value.pv \in {I64Zero, I64FromInt(1)} ->
            [ok |-> TRUE,
             object |-> PyFloat(FloatTable[IF value.pv = I64Zero THEN 1 ELSE 2].d)]
      [] value.py \in {"None", "str", "bytes", "list", "tuple", "dict"} ->
            [ok |-> FALSE, object |-> PyNULL]

(* int(x) of the doubles of FloatTable: truncation toward zero *)
TruncTable == <<0, 1, -2, 0, 0>>

(* PyNumber_Long: [ok, object] *)
PyNumber_Long(value) ==
    CASE value.py = "int" -> [ok |-> TRUE, object |-> value]
      [] value.py = "bool" ->
            [ok |-> TRUE, object |-> PyInt(I64FromInt(IF value.pv THEN 1 ELSE 0))]
      [] value.py = "float" ->
            [ok |-> TRUE,
             object |-> PyInt(I64FromInt(TruncTable[
                      CHOOSE k \in DOMAIN FloatTable : FloatTable[k].d = value.pv]))]
      [] OTHER -> [ok |-> FALSE, object |-> PyNULL]

(* PyLong_AsLongLong / PyLong_AsLong (long is 64 bits wide): [ok, val]; *)
(* of NULL it is -1 with SystemError set                                *)
PyLong_AsLongLong(value) ==
    IF value = PyNULL \/ Len(value.pv) > 10
    THEN [ok |-> FALSE, val |-> I64FromInt(-1)]
    ELSE [ok |-> TRUE, val |-> value.pv]

(* PyUnicode_AsUTF8String(PyObject_Str(x)): the bytes of str(x) *)
PyObject_Str(value) ==
    CASE value.py = "str" -> PyBytes(value.pv)
      [] value.py = "None" -> PyBytes(<<78, 111, 110, 101>>)
      [] value.py = "bool" ->
            PyBytes(IF value.pv THEN <<84, 114, 117, 101>>
                    ELSE <<70, 97, 108, 115, 101>>)

(* PySequence_Fast: [ok, items] *)
PySequence_Fast(value) ==
    CASE value.py \in {"list", "tuple"} -> [ok |-> TRUE, items |-> value.pv]
      [] value.py = "str" ->
            [ok |-> TRUE, items |-> [k \in DOMAIN value.pv |-> PyStr(<<value.pv[k]>>)]]
      [] value.py = "bytes" ->
            [ok |-> TRUE,
             items |-> [k \in DOMAIN value.pv |-> PyInt(I64FromInt(value.pv[k]))]]
      [] value.py = "dict" ->
            [ok |-> TRUE, items |-> [k \in DOMAIN value.pv |-> value.pv[k][1]]]
      [] OTHER -> [ok |-> FALSE, items |-> << >>]

(* PyMapping_Check: the types with a subscript operator *)
PyMapping_Check(value) == value.py \in SizedTypes

(* PyMapping_Items: [ok, items]; only a dict has an items() method *)
PyMapping_Items(value) ==
    IF value.py = "dict" THEN [ok |-> TRUE, items |-> value.pv]
    ELSE [ok |-> FALSE, items |-> << >>]

PyMapping_Length(value) == Len(value.pv)

(* PyMapping_HasKey(value, key) for a str key: subscripting a list, a   *)
(* tuple, a str or bytes with a str raises, which HasKey reports as 0   *)
PyMapping_HasKey(value, key) ==
    value.py = "dict" /\ \E k \in DOMAIN value.pv : value.pv[k][1] = key

(* PyObject_GetItem(value, key) of a dict that has the key *)
PyObject_GetItem(value, key) ==
    value.pv[CHOOSE k \in DOMAIN value.pv : value.pv[k][1] = key][2]

(* ------------------------------------------------------------------ *)
(* schema.c: prepare_schema.  A Schema is [name, data_type,            *)
(* default_value, fields].  A preparation takes the size accumulated   *)
(* so far and returns [ok, path, size, prepared]: path is the segments *)
(* of the error path (innermost first, << >> when the code leaves the  *)
(* path NULL), size the value of the size counter on return.           *)
(* ------------------------------------------------------------------ *)
Prepared(size, v) == [ok |-> TRUE, path |-> << >>, size |-> size, prepared |-> v]

Rejected(path, size) == [ok |-> FALSE, path |-> path, size |-> size, prepared |-> PyNULL]

SizeOfLen(len) == size_long(I64FromInt(len))

RECURSIVE prepare_schema(_, _, _)

prepare_nullable_schema(schema, value, size) ==
    IF value = PyNone THEN Prepared(size + 1, PyNone)
    ELSE prepare_schema(schema.fields[1], value, size + 1)

prepare_boolean_schema(schema, value, size) ==
    Prepared(size + 1, PyBool(PyObject_IsTrue(value)))

prepare_bytes_schema(schema, value, size) ==
    LET result == PyObject_Bytes(value)
    IN  IF ~result.ok THEN Rejected(<< >>, size)
        ELSE Prepared(size + SizeOfLen(Len(result.object.pv)) + Len(result.object.pv), result.object)

prepare_double_schema(schema, value, size) ==
    LET result == PyNumber_Float(value)
    IN  IF ~result.ok THEN Rejected(<< >>, size) ELSE Prepared(size + 8, result.object)

prepare_float_schema(schema, value, size) ==
    LET result == PyNumber_Float(value)
    IN  IF ~result.ok THEN Rejected(<< >>, size) ELSE Prepared(size + 4, result.object)

prepare_int_schema(schema, value, size) ==
    LET result == PyNumber_Long(value)
        temp == PyLong_AsLongLong(result.object)
    IN  IF ~result.ok THEN Rejected(<< >>, size)
        ELSE IF ~temp.ok THEN Rejected(<< >>, size)
        ELSE IF I64Less(temp.val, I64FromInt(IntMin("int")))
                  \/ I64Less(I64FromInt(IntMax("int")), temp.val)
             THEN Rejected(<< >>, size)
        ELSE Prepared(size + size_long(temp.val), result.object)

prepare_long_schema(schema, value, size) ==
    LET result == PyNumber_Long(value)
        temp == PyLong_AsLongLong(result.object)
    IN  IF ~result.ok THEN Rejected(<< >>, size)
        ELSE IF ~temp.ok THEN Rejected(<< >>, size)
        ELSE Prepared(size + size_long(temp.val), result.object)

prepare_string_schema(schema, value, size) ==
    LET result == PyObject_Str(value)
    IN  Prepared(size + SizeOfLen(Len(result.pv)) + Len(result.pv), result)

(* the size of the block count and, after a non-empty block, the zero *)
CountSize(count) == SizeOfLen(count) + (IF count > 0 THEN 1 ELSE 0)

(* the loop of prepare_array_schema from item i on *)
RECURSIVE prepare_array_loop(_, _, _, _, _)
prepare_array_loop(field, items, i, size, result) ==
    LET Item(item) ==
            IF ~item.ok THEN Rejected(Append(item.path, "array item"), item.size)
            ELSE prepare_array_loop(field, items, i + 1, item.size,
                                    Append(result, item.prepared))
    IN  IF i > Len(items)
        THEN Prepared(size + CountSize(Len(items)), PyList(result))
        ELSE Item(prepare_schema(field, items[i], size))

prepare_array_schema(schema, value, size) ==
    LET value_seq == PySequence_Fast(value)
    IN  IF ~value_seq.ok THEN Rejected(<< >>, size)
        ELSE prepare_array_loop(schema.fields[1], value_seq.items, 1, size, << >>)

(* the loop of prepare_map_schema from item i on; the prepared map is  *)
(* the list key, value, key, value, ..                                 *)
RECURSIVE prepare_map_loop(_, _, _, _, _)
prepare_map_loop(schema, items, i, size, result) ==
    LET Value(key, v) ==
            IF ~v.ok THEN Rejected(Append(v.path, "value of map key"), v.size)
            ELSE prepare_map_loop(schema, items, i + 1, v.size,
                                  result \o <<key.prepared, v.prepared>>)
        Key(key) ==
            IF ~key.ok THEN Rejected(<<"map key">>, key.size)
            ELSE Value(key, prepare_schema(schema.fields[1], items[i][2], key.size))
    IN  IF i > Len(items)
        THEN Prepared(size + CountSize(Len(items)), PyList(result))
        ELSE Key(prepare_string_schema(schema, items[i][1], size))

prepare_map_schema(schema, value, size) ==
    LET items == PyMapping_Items(value)
    IN  IF ~PyMapping_Check(value) THEN Rejected(<< >>, size)
        ELSE IF ~items.ok THEN Rejected(<< >>, size)
        ELSE prepare_map_loop(schema, items.items, 1, size, << >>)

(* the loop of prepare_record_schema from field i on; count is the     *)
(* number of entries of the mapping not yet matched to a field         *)
RECURSIVE prepare_record_loop(_, _, _, _, _, _)
prepare_record_loop(schema, value, i, count, size, result) ==
    LET field == schema.fields[i]
        key == field.name
        optional == field.data_type = "nullable" \/ field.default_value # PyNone
        Field(c, p) ==
            IF ~p.ok THEN Rejected(Append(p.path, "value of record field"), p.size)
            ELSE prepare_record_loop(schema, value, i + 1, c, p.size,
                                     Append(result, p.prepared))
        Present(field_value) ==
            IF field_value = PyNone
            THEN IF ~optional THEN Rejected(<<"record field">>, size)
                 ELSE Field(count - 1, prepare_schema(field, field.default_value, size))
            ELSE Field(count - 1, prepare_schema(field, field_value, size))
    IN  IF i > Len(schema.fields)
        THEN IF count # 0 THEN Rejected(<< >>, size)
             ELSE Prepared(size, PyList(result))
        ELSE IF PyMapping_HasKey(value, key)
             THEN Present(PyObject_GetItem(value, key))
        ELSE IF ~optional THEN Rejected(<<"record field">>, size)
        ELSE Field(count, prepare_schema(field, field.default_value, size))

prepare_record_schema(schema, value, size) ==
    IF ~PyMapping_Check(value) THEN Rejected(<< >>, size)
    ELSE prepare_record_loop(schema, value, 1, PyMapping_Length(value), size, << >>)

(* The model has one RecordType object per column list, so the pointer *)
(* comparison object->type == type is equality of the column lists  *)
IsRecordOf(object, type) == object.py = "Record" /\ object.pv.type = type.pv

(* prepare_object_schema, for tuples of length 0, 2 or more; the       *)
(* prepared Schema object is (type, (object_size, prepared))           *)
prepare_object_schema(schema, value, size) ==
    LET type == value.pv[1]
        object == value.pv[2]
        Nested(o) ==
            IF ~o.ok THEN Rejected(Append(o.path, "object"), size)
            ELSE Prepared(size + o.size + SizeOfLen(o.size),
                          PyTuple(<<type, PyTuple(<<PyInt(I64FromInt(o.size)), o.prepared>>)>>))
        OfRecord(s) ==
            Prepared(size + s.size + SizeOfLen(s.size),
                     PyTuple(<<type, PyRecord(s.r)>>))
    IN  IF value.py # "tuple" THEN Rejected(<< >>, size)
        ELSE IF Len(value.pv) = 0 THEN Prepared(size + 1, value)
        ELSE IF type.py = "Schema" THEN Nested(prepare_schema(type.pv, object, 0))
        ELSE IF type.py # "RecordType" THEN Rejected(<< >>, size)
        ELSE IF ~IsRecordOf(object, type) THEN Rejected(<<"object">>, size)
        ELSE OfRecord(size_record(object.pv))

(* the first loop of prepare_object_array_schema (a Schema type) from  *)
(* object i on                                                         *)
RECURSIVE prepare_objects_loop(_, _, _, _, _)
prepare_objects_loop(type, items, i, size, result) ==
    LET Nested(o) ==
            IF ~o.ok THEN Rejected(Append(o.path, "array object"), size)
            ELSE prepare_objects_loop(type, items, i + 1,
                     size + o.size + SizeOfLen(o.size),
                     Append(result, PyTuple(<<PyInt(I64FromInt(o.size)), o.prepared>>)))
    IN  IF i > Len(items)
        THEN Prepared(size + CountSize(Len(items)), PyTuple(<<type, PyList(result)>>))
        ELSE Nested(prepare_schema(type.pv, items[i], 0))

(* prepare_object_array_schema for every value; the second loop (a     *)
(* RecordType) is prepare_object_array_loop, stopped at the first      *)
(* object that is not a Record of the type                             *)
prepare_object_array_value(schema, value, size) ==
    LET type == value.pv[1]
        object_seq == PySequence_Fast(value.pv[2])
        items == object_seq.items
        bad == {k \in DOMAIN items : ~IsRecordOf(items[k], type)}
        first == CHOOSE k \in bad : \A j \in bad : k <= j
        Records(n) == [k \in 1..n |-> items[k].pv]
        Stopped(p) == Rejected(<<"array object">>, size + p.size)
        All(p) ==
            Prepared(size + p.size,
                     PyTuple(<<type, PyList([k \in DOMAIN items |->
                                                PyRecord(p.records[k])])>>))
    IN  IF value.py # "tuple" THEN Rejected(<< >>, size)
        ELSE IF Len(value.pv) = 0 THEN Prepared(size + 1, value)
        ELSE IF Len(value.pv) # 2 THEN Rejected(<< >>, size)
        ELSE IF type.py \notin {"Schema", "RecordType"} THEN Rejected(<< >>, size)
        ELSE IF ~object_seq.ok THEN Rejected(<< >>, size)
        ELSE IF type.py = "Schema" THEN prepare_objects_loop(type, items, 1, size, << >>)
        ELSE IF bad # {}
             THEN Stopped(prepare_object_array_loop(Records(first - 1), 1, 0))
        ELSE All(prepare_object_array_schema(Records(Len(items))))

(* prepare_schema_types[schema->data_type](schema, value, path, size) *)
prepare_schema(schema, value, size) ==
    CASE schema.data_type = "nullable" -> prepare_nullable_schema(schema, value, size)
      [] schema.data_type = "boolean" -> prepare_boolean_schema(schema, value, size)
      [] schema.data_type = "bytes" -> prepare_bytes_schema(schema, value, size)
      [] schema.data_type = "double" -> prepare_double_schema(schema, value, size)
      [] schema.data_type = "float" -> prepare_float_schema(schema, value, size)
      [] schema.data_type = "int" -> prepare_int_schema(schema, value, size)
      [] schema.data_type = "long" -> prepare_long_schema(schema, value, size)
      [] schema.data_type = "string" -> prepare_string_schema(schema, value, size)
      [] schema.data_type = "array" -> prepare_array_schema(schema, value, size)
      [] schema.data_type = "map" -> prepare_map_schema(schema, value, size)
      [] schema.data_type = "record" -> prepare_record_schema(schema, value, size)
      [] schema.data_type = "object" -> prepare_object_schema(schema, value, size)
      [] schema.data_type = "object_array" ->
            prepare_object_array_value(schema, value, size)

(* ------------------------------------------------------------------ *)
(* schema.c: write_schema.  A write returns [err, out] as the avro.c   *)
(* writes do; ERR_NULL stands for a read through the NULL pointer      *)
(* (PyBytes_GET_SIZE, PyFloat_AS_DOUBLE, PyList_GET_SIZE or            *)
(* PyTuple_GET_SIZE of NULL), whose behaviour is undefined.            *)
(* ------------------------------------------------------------------ *)
ERR_NULL == "NULL dereferenced"

write_boolean(out, max, b) == write_char(out, max, IF b THEN 1 ELSE 0)

RECURSIVE write_schema(_, _, _, _)

write_nullable_schema(schema, out, max, value) ==
    LET Child(w) ==
            IF w.err # ERR_NONE THEN w
            ELSE write_schema(schema.fields[1], w.out, max, value)
    IN  IF value = PyNone THEN write_long(out, max, I64FromInt(1))
        ELSE Child(write_long(out, max, I64Zero))

write_boolean_schema(schema, out, max, value) ==
    write_boolean(out, max, value = PyBool(TRUE))

write_bytes_schema(schema, out, max, value) ==
    IF value = PyNULL THEN [err |-> ERR_NULL, out |-> out]
    ELSE write_bytes(out, max, value.pv)

write_double_schema(schema, out, max, value) ==
    IF value = PyNULL THEN [err |-> ERR_NULL, out |-> out]
    ELSE write_fixed(out, max, value.pv)

write_float_schema(schema, out, max, value) ==
    IF value = PyNULL THEN [err |-> ERR_NULL, out |-> out]
    ELSE write_fixed(out, max, NarrowToFloat(value.pv))

write_int_schema(schema, out, max, value) ==
    write_long(out, max, PyLong_AsLongLong(value).val)

write_long_schema(schema, out, max, value) ==
    write_long(out, max, PyLong_AsLongLong(value).val)

(* the loop of write_array_schema from item i on, with the closing 0 *)
RECURSIVE write_array_loop(_, _, _, _, _)
write_array_loop(field, out, max, items, i) ==
    LET Item(w) ==
            IF w.err # ERR_NONE THEN w
            ELSE write_array_loop(field, w.out, max, items, i + 1)
    IN  IF i > Len(items) THEN write_size(out, max, 0)
        ELSE Item(write_schema(field, out, max, items[i]))

write_array_schema(schema, out, max, value) ==
    LET Items(w) ==
            IF w.err # ERR_NONE \/ Len(value.pv) = 0 THEN w
            ELSE write_array_loop(schema.fields[1], w.out, max, value.pv, 1)
    IN  IF value = PyNULL THEN [err |-> ERR_NULL, out |-> out]
        ELSE Items(write_size(out, max, Len(value.pv)))

(* the loop of write_map_schema from list index i on (i, i + 1 are a   *)
(* key and its value), with the closing 0                              *)
RECURSIVE write_map_loop(_, _, _, _, _)
write_map_loop(schema, out, max, items, i) ==
    LET Value(w) ==
            IF w.err # ERR_NONE THEN w
            ELSE write_map_loop(schema, w.out, max, items, i + 2)
        Key(w) ==
            IF w.err # ERR_NONE THEN w
            ELSE Value(write_schema(schema.fields[1], w.out, max, items[i + 1]))
    IN  IF i > Len(items) THEN write_size(out, max, 0)
        ELSE Key(write_bytes_schema(schema, out, max, items[i]))

write_map_schema(schema, out, max, value) ==
    LET Items(w) ==
            IF w.err # ERR_NONE \/ Len(value.pv) = 0 THEN w
            ELSE write_map_loop(schema, w.out, max, value.pv, 1)
    IN  IF value = PyNULL THEN [err |-> ERR_NULL, out |-> out]
        ELSE Items(write_size(out, max, Len(value.pv) \div 2))

RECURSIVE write_fields_loop(_, _, _, _, _)
write_fields_loop(schema, out, max, items, i) ==
    LET Field(w) ==
            IF w.err # ERR_NONE THEN w
            ELSE write_fields_loop(schema, w.out, max, items, i + 1)
    IN  IF i > Len(schema.fields) THEN [err |-> ERR_NONE, out |-> out]
        ELSE Field(write_schema(schema.fields[i], out, max, items[i]))

write_record_schema(schema, out, max, value) ==
    IF value = PyNULL THEN [err |-> ERR_NULL, out |-> out]
    ELSE write_fields_loop(schema, out, max, value.pv, 1)

(* one prepared object of a Schema type: its size, then its bytes *)
write_object_tuple(type, out, max, object_tuple) ==
    LET Body(w) ==
            IF w.err # ERR_NONE THEN w
            ELSE write_schema(type.pv, w.out, max, object_tuple.pv[2])
    IN  Body(write_size(out, max, I64ToInt(object_tuple.pv[1].pv)))

(* one Record: size_record(record), then write_record *)
write_object_record(out, max, record) ==
    LET Body(w) ==
            IF w.err # ERR_NONE THEN w ELSE write_record(w.out, max, record)
    IN  Body(write_size(out, max, size_record(record).size))

write_object_schema(schema, out, max, value) ==
    IF value = PyNULL THEN [err |-> ERR_NULL, out |-> out]
    ELSE IF Len(value.pv) = 0 THEN write_size(out, max, 0)
    ELSE IF value.pv[1].py = "Schema"
         THEN write_object_tuple(value.pv[1], out, max, value.pv[2])
    ELSE write_object_record(out, max, value.pv[2].pv)

(* both loops of write_object_array_schema from object i on, with the  *)
(* closing 0; no other thread runs while the second has the lock       *)
(* released                                                            *)
RECURSIVE write_objects_loop(_, _, _, _, _)
write_objects_loop(type, out, max, objects, i) ==
    LET Rest(w) ==
            IF w.err # ERR_NONE THEN w
            ELSE write_objects_loop(type, w.out, max, objects, i + 1)
    IN  IF i > Len(objects) THEN write_size(out, max, 0)
        ELSE IF type.py = "Schema"
             THEN Rest(write_object_tuple(type, out, max, objects[i]))
        ELSE Rest(write_object_record(out, max, objects[i].pv))

write_object_array_schema(schema, out, max, value) ==
    LET objects == value.pv[2].pv
        Objects(w) ==
            IF w.err # ERR_NONE \/ Len(objects) = 0 THEN w
            ELSE write_objects_loop(value.pv[1], w.out, max, objects, 1)
    IN  IF value = PyNULL THEN [err |-> ERR_NULL, out |-> out]
        ELSE IF Len(value.pv) = 0 THEN write_size(out, max, 0)
        ELSE Objects(write_size(out, max, Len(objects)))

(* write_schema_types[schema->data_type](schema, pos, max, value) *)
write_schema(schema, out, max, value) ==
    CASE schema.data_type = "nullable" -> write_nullable_schema(schema, out, max, value)
      [] schema.data_type = "boolean" -> write_boolean_schema(schema, out, max, value)
      [] schema.data_type \in {"bytes", "string"} ->
            write_bytes_schema(schema, out, max, value)
      [] schema.data_type = "double" -> write_double_schema(schema, out, max, value)
      [] schema.data_type = "float" -> write_float_schema(schema, out, max, value)
      [] schema.data_type = "int" -> write_int_schema(schema, out, max, value)
      [] schema.data_type = "long" -> write_long_schema(schema, out, max, value)
      [] schema.data_type = "array" -> write_array_schema(schema, out, max, value)
      [] schema.data_type = "map" -> write_map_schema(schema, out, max, value)
      [] schema.data_type = "record" -> write_record_schema(schema, out, max, value)
      [] schema.data_type = "object" -> write_object_schema(schema, out, max, value)
      [] schema.data_type = "object_array" ->
            write_object_array_schema(schema, out, max, value)

(* ------------------------------------------------------------------ *)
(* schema.c: read_schema.  A read returns [ok, pos, value]; buf is the *)
(* whole buffer, whose start the BufferRanges of object and            *)
(* object_array values count from.                                     *)
(* ------------------------------------------------------------------ *)
ReadError(pos) == [ok |-> FALSE, pos |-> pos, value |-> PyNULL]

ReadValue(pos, v) == [ok |-> TRUE, pos |-> pos, value |-> v]

read_boolean(buf, pos, max) ==
    IF pos + 1 > max THEN [err |-> ERR_EOF, pos |-> pos, val |-> FALSE]
    ELSE IF buf[pos + 1] \notin {0, 1}
         THEN [err |-> ERR_OVERFLOW, pos |-> pos, val |-> FALSE]
    ELSE [err |-> ERR_NONE, pos |-> pos + 1, val |-> buf[pos + 1] = 1]

RECURSIVE read_schema(_, _, _, _)

read_nullable_schema(schema, buf, pos, max) ==
    LET Tag(is_null) ==
            IF is_null.err # ERR_NONE THEN ReadError(is_null.pos)
            ELSE IF is_null.val = I64FromInt(1) THEN ReadValue(is_null.pos, PyNone)
            ELSE IF is_null.val = I64Zero
                 THEN read_schema(schema.fields[1], buf, is_null.pos, max)
            ELSE ReadError(is_null.pos)
    IN  Tag(read_long(buf, pos, max))

read_boolean_schema(schema, buf, pos, max) ==
    LET Value(r) ==
            IF r.err # ERR_NONE THEN ReadError(r.pos)
            ELSE ReadValue(r.pos, PyBool(r.val))
    IN  Value(read_boolean(buf, pos, max))

read_bytes_schema(schema, buf, pos, max) ==
    LET Data(len) ==
            IF len.err # ERR_NONE THEN ReadError(len.pos)
            ELSE ReadValue(len.pos + len.val, PyBytes(SubSeqFrom(buf, len.pos, len.val)))
    IN  Data(read_bytes_len(buf, pos, max))

read_double_schema(schema, buf, pos, max) ==
    LET Value(r) ==
            IF r.err # ERR_NONE THEN ReadError(r.pos)
            ELSE ReadValue(r.pos, PyFloat(r.val))
    IN  Value(read_fixed(buf, pos, max, 8))

(* read_float_schema reading the eight bytes of a double *)
read_float_schema_as_double(schema, buf, pos, max) ==
    LET Value(r) ==
            IF r.err # ERR_NONE THEN ReadError(r.pos)
            ELSE ReadValue(r.pos, PyFloat(r.val))
    IN  Value(read_fixed(buf, pos, max, 8))

read_float_schema(schema, buf, pos, max) ==
    LET Value(r) ==
            IF r.err # ERR_NONE THEN ReadError(r.pos)
            ELSE ReadValue(r.pos, PyFloat(WidenToDouble(r.val)))
    IN  Value(read_fixed(buf, pos, max, 4))

read_int_schema(schema, buf, pos, max) ==
    LET Value(r) ==
            IF r.err # ERR_NONE THEN ReadError(r.pos)
            ELSE ReadValue(r.pos, PyInt(I64FromInt(r.val)))
    IN  Value(read_int(buf, pos, max))

read_long_schema(schema, buf, pos, max) ==
    LET Value(r) ==
            IF r.err # ERR_NONE THEN ReadError(r.pos)
            ELSE ReadValue(r.pos, PyInt(r.val))
    IN  Value(read_long(buf, pos, max))

(* PyUnicode_FromStringAndSize fails on bytes that are not UTF-8 *)
read_string_schema(schema, buf, pos, max) ==
    LET Data(len) ==
            IF len.err # ERR_NONE THEN ReadError(len.pos)
            ELSE IF ~IsUtf8(SubSeqFrom(buf, len.pos, len.val))
                 THEN ReadError(len.pos + len.val)
            ELSE ReadValue(len.pos + len.val, PyStr(SubSeqFrom(buf, len.pos, len.val)))
    IN  Data(read_bytes_len(buf, pos, max))

read_object_schema(schema, buf, pos, max) ==
    LET Range(len) ==
            IF len.err # ERR_NONE THEN ReadError(len.pos)
            ELSE ReadValue(len.pos + len.val, BufferRange_create(len.pos, len.val))
    IN  Range(read_bytes_len(buf, pos, max))

(* the inner loop of read_array_schema and read_object_array_schema:   *)
(* block_count items from pos on, appended to result.  objects tells   *)
(* the second, which reads each item with read_object_schema           *)
RECURSIVE read_items_loop(_, _, _, _, _, _, _)
read_items_loop(field, objects, buf, pos, max, block_count, result) ==
    LET Item(item) ==
            IF ~item.ok THEN [ok |-> FALSE, pos |-> item.pos, items |-> result]
            ELSE read_items_loop(field, objects, buf, item.pos, max,
                                 block_count - 1, Append(result, item.value))
    IN  IF block_count = 0 THEN [ok |-> TRUE, pos |-> pos, items |-> result]
        ELSE IF objects THEN Item(read_object_schema(field, buf, pos, max))
        ELSE Item(read_schema(field, buf, pos, max))

(* the outer loop: count is what read_size returned for the next block; *)
(* a list of more than 2^31 items cannot be allocated                  *)
RECURSIVE read_blocks_loop(_, _, _, _, _, _)
read_blocks_loop(field, objects, buf, max, count, result) ==
    LET Again(block) ==
            IF ~block.ok THEN ReadError(block.pos)
            ELSE read_blocks_loop(field, objects, buf, max,
                                  read_size(buf, block.pos, max), block.items)
        Sized(size) ==
            IF size.err # ERR_NONE THEN ReadError(size.pos)
            ELSE Again(read_items_loop(field, objects, buf, size.pos, max,
                                       -I64ToInt(count.val), result))
    IN  IF count.err # ERR_NONE THEN ReadError(count.pos)
        ELSE IF ~I64Small(count.val) THEN ReadError(count.pos)
        ELSE IF count.val = I64Zero THEN ReadValue(count.pos, PyList(result))
        ELSE IF I64Neg(count.val) THEN Sized(read_long(buf, count.pos, max))
        ELSE Again(read_items_loop(field, objects, buf, count.pos, max,
                                   I64ToInt(count.val), result))

read_array_schema(schema, buf, pos, max) ==
    read_blocks_loop(schema.fields[1], FALSE, buf, max, read_size(buf, pos, max), << >>)

read_object_array_schema(schema, buf, pos, max) ==
    read_blocks_loop(schema, TRUE, buf, max, read_size(buf, pos, max), << >>)

(* PyDict_SetItem on the items of a dict: a key already present keeps  *)
(* its place and takes the new value                                   *)
PyDict_SetItem(items, key, value) ==
    IF \E k \in DOMAIN items : items[k][1] = key
    THEN [k \in DOMAIN items |-> IF items[k][1] = key THEN <<key, value>> ELSE items[k]]
    ELSE Append(items, <<key, value>>)

(* the inner loop of read_map_schema: count entries from pos on *)
RECURSIVE read_entries_loop(_, _, _, _, _, _)
read_entries_loop(schema, buf, pos, max, count, result) ==
    LET Value(key, value) ==
            IF ~value.ok THEN [ok |-> FALSE, pos |-> value.pos, items |-> result]
            ELSE read_entries_loop(schema, buf, value.pos, max, count - 1,
                                   PyDict_SetItem(result, key.value, value.value))
        Key(key) ==
            IF ~key.ok THEN [ok |-> FALSE, pos |-> key.pos, items |-> result]
            ELSE Value(key, read_schema(schema.fields[1], buf, key.pos, max))
    IN  IF count = 0 THEN [ok |-> TRUE, pos |-> pos, items |-> result]
        ELSE Key(read_string_schema(schema, buf, pos, max))

RECURSIVE read_map_loop(_, _, _, _, _)
read_map_loop(schema, buf, max, count, result) ==
    LET Again(block) ==
            IF ~block.ok THEN ReadError(block.pos)
            ELSE read_map_loop(schema, buf, max, read_size(buf, block.pos, max),
                               block.items)
        Sized(size) ==
            IF size.err # ERR_NONE THEN ReadError(size.pos)
            ELSE Again(read_entries_loop(schema, buf, size.pos, max,
                                         -I64ToInt(count.val), result))
    IN  IF count.err # ERR_NONE THEN ReadError(count.pos)
        ELSE IF count.val = I64Zero THEN ReadValue(count.pos, PyDict(result))
        ELSE IF ~I64Small(count.val) THEN ReadError(max)
        ELSE IF I64Neg(count.val) THEN Sized(read_long(buf, count.pos, max))
        ELSE Again(read_entries_loop(schema, buf, count.pos, max,
                                     I64ToInt(count.val), result))

read_map_schema(schema, buf, pos, max) ==
    read_map_loop(schema, buf, max, read_size(buf, pos, max), << >>)

RECURSIVE read_fields_loop(_, _, _, _, _, _)
read_fields_loop(schema, buf, pos, max, i, result) ==
    LET Field(value) ==
            IF ~value.ok THEN ReadError(value.pos)
            ELSE read_fields_loop(schema, buf, value.pos, max, i + 1,
                     PyDict_SetItem(result, schema.fields[i].name, value.value))
    IN  IF i > Len(schema.fields) THEN ReadValue(pos, PyDict(result))
        ELSE Field(read_schema(schema.fields[i], buf, pos, max))

read_record_schema(schema, buf, pos, max) ==
    read_fields_loop(schema, buf, pos, max, 1, << >>)

(* read_schema_types[schema->data_type](schema, buf, pos, max) *)
read_schema(schema, buf, pos, max) ==
    CASE schema.data_type = "nullable" -> read_nullable_schema(schema, buf, pos, max)
      [] schema.data_type = "boolean" -> read_boolean_schema(schema, buf, pos, max)
      [] schema.data_type = "bytes" -> read_bytes_schema(schema, buf, pos, max)
      [] schema.data_type = "double" -> read_double_schema(schema, buf, pos, max)
      [] schema.data_type = "float" -> read_float_schema(schema, buf, pos, max)
      [] schema.data_type = "int" -> read_int_schema(schema, buf, pos, max)
      [] schema.data_type = "long" -> read_long_schema(schema, buf, pos, max)
      [] schema.data_type = "string" -> read_string_schema(schema, buf, pos, max)
      [] schema.data_type = "array" -> read_array_schema(schema, buf, pos, max)
      [] schema.data_type = "map" -> read_map_schema(schema, buf, pos, max)
      [] schema.data_type = "record" -> read_record_schema(schema, buf, pos, max)
      [] schema.data_type = "object" -> read_object_schema(schema, buf, pos, max)
      [] schema.data_type = "object_array" ->
            read_object_array_schema(schema, buf, pos, max)

(* Schema.decode(buffer): the whole buffer is the range; data after    *)
(* the value is ignored                                                *)
Schema_decode(self, buffer) == read_schema(self, buffer, 0, Len(buffer))

(* ------------------------------------------------------------------ *)
(* schema.c: Schema_new, validate_schema, Schema_encode                *)
(* ------------------------------------------------------------------ *)
schema_data_type_names ==
    <<"nullable", "boolean", "bytes", "double", "float", "int", "long", "string",
      "array", "map", "record", "object", "object_array">>

validate_zero_field_schema(schema) == Len(schema.fields) = 0

validate_one_field_schema(schema) == Len(schema.fields) = 1

(* the loop of validate_record_schema from field i on; name_set holds  *)
(* the names of the fields before i                                    *)
RECURSIVE validate_record_loop(_, _, _)
validate_record_loop(schema, i, name_set) ==
    IF i > Len(schema.fields) THEN TRUE
    ELSE IF schema.fields[i].name = PyNone THEN FALSE
    ELSE IF schema.fields[i].name \in name_set THEN FALSE
    ELSE validate_record_loop(schema, i + 1, name_set \cup {schema.fields[i].name})

validate_record_schema(schema) ==
    Len(schema.fields) > 0 /\ validate_record_loop(schema, 1, {})

(* validate_schema_types[schema->data_type](schema) *)
validate_schema_type(schema) ==
    CASE schema.data_type \in {"nullable", "array", "map"} ->
            validate_one_field_schema(schema)
      [] schema.data_type = "record" -> validate_record_schema(schema)
      [] OTHER -> validate_zero_field_schema(schema)

(* validate_schema: a default value must prepare *)
validate_schema(schema) ==
    /\ validate_schema_type(schema)
    /\ schema.default_value # PyNone =>
          prepare_schema(schema, schema.default_value, 0).ok

(* Schema(name, data_type, default_value, fields) with every argument  *)
(* given by keyword: name is None or a str, data_type a str, fields a  *)
(* sequence of Schema objects.  [ok, schema]                           *)
Schema_new(name, data_type, default_value, fields) ==
    LET self == [name |-> name, data_type |-> data_type,
                 default_value |-> default_value, fields |-> fields]
    IN  IF \A k \in DOMAIN schema_data_type_names : schema_data_type_names[k] # data_type
        THEN [ok |-> FALSE, schema |-> self]
        ELSE IF name.py \notin {"None", "str"} THEN [ok |-> FALSE, schema |-> self]
        ELSE [ok |-> validate_schema(self), schema |-> self]

(* ------------------------------------------------------------------ *)
(* Schema specification: construct a Schema, encode a value with it    *)
(* (prepare, then write into a buffer of the prepared size), decode    *)
(* the bytes and encode what was decoded                               *)
(* ------------------------------------------------------------------ *)
(* most items of a list, entries of a dict and fields of a record *)
MaxItems == 2

LeafKinds ==
    {"boolean", "bytes", "double", "float", "int", "long", "string", "object",
     "object_array"}

SchemaArgs(name, data_type, default_value, fields) ==
    [name |-> name, data_type |-> data_type, default_value |-> default_value,
     fields |-> fields]

(* the Schemas construction accepts, of a set of argument tuples *)
Constructed(args) ==
    {Schema_new(a.name, a.data_type, a.default_value, a.fields).schema :
        a \in {b \in args :
                 Schema_new(b.name, b.data_type, b.default_value, b.fields).ok}}

(* "decimal" is no data type; nullable and record need fields *)
LeafArgs ==
    {SchemaArgs(PyNone, k, PyNone, << >>) :
        k \in LeafKinds \cup {"decimal", "nullable", "record"}}

(* record fields: unnamed, named by the empty str, by a and by b; with *)
(* a default that prepares (7) and one that does not (the str a)       *)
FieldArgs ==
    {SchemaArgs(n, "int", PyNone, << >>) :
        n \in {PyNone, PyStr(<< >>), PyStr(<<97>>), PyStr(<<98>>)}}
    \cup {SchemaArgs(PyStr(<<98>>), "int", d, << >>) :
             d \in {PyInt(I64FromInt(7)), PyStr(<<97>>)}}
    \cup {SchemaArgs(PyStr(<<97>>), "string", PyNone, << >>)}

(* all sequences of 1 .. n elements of a set *)
RECURSIVE SeqsUpTo(_, _)
SeqsUpTo(S, n) ==
    IF n = 0 THEN {}
    ELSE {<<x>> : x \in S}
            \cup {Append(q, x) : q \in SeqsUpTo(S, n - 1), x \in S}

(* one level of containers over the Schemas of a set *)
ContainerArgs(children) ==
    {SchemaArgs(PyNone, k, PyNone, <<c>>) :
        k \in {"nullable", "array", "map"}, c \in children}

(* a field that is a container, named a *)
Named(schema) == [schema EXCEPT !.name = PyStr(<<97>>)]

NestingKinds == {"int", "string", "object"}

Level1Args ==
    ContainerArgs(Constructed(LeafArgs))
    \cup {SchemaArgs(PyNone, "record", PyNone, f) :
             f \in SeqsUpTo(Constructed(FieldArgs), MaxItems)}
    \cup {SchemaArgs(PyNone, "nullable", PyNone, f) :
             f \in {<<c, c>> : c \in Constructed(LeafArgs)}}
    \cup {SchemaArgs(PyNone, "int", PyNone, <<c>>) : c \in Constructed(LeafArgs)}

Level2Args ==
    ContainerArgs({s \in Constructed(Level1Args) :
                     /\ s.data_type # "record"
                     /\ s.fields[1].data_type \in NestingKinds})
    \cup {SchemaArgs(PyNone, "record", PyNone, <<Named(s)>>) :
             s \in {c \in Constructed(Level1Args) :
                      /\ c.data_type \in {"nullable", "array"}
                      /\ c.fields[1].data_type = "int"}}

AllSchemaArgs == LeafArgs \cup Level1Args \cup Level2Args

(* the RecordTypes and Records given as objects: the second type ends  *)
(* in a date column                                                    *)
ObjectTypes ==
    {<<Column("int8", FALSE)>>, <<Column("int8", FALSE), Column("date", TRUE)>>}

ObjectRecords(t) == {Record_set_sequence(Record_new(t), a).r : a \in RecordArgs(t)}

IntSchema == Schema_new(PyNone, "int", PyNone, << >>).schema

(* values given for a leaf kind: ones prepare converts, ones it takes  *)
(* as they are and ones it rejects                                     *)
LeafValues(kind, top) ==
    CASE kind = "boolean" -> {PyBool(TRUE), PyBool(FALSE), PyNone}
      [] kind = "bytes" ->
            {PyBytes(<< >>), PyBytes(<<0, 255>>), PyList(<<PyInt(I64FromInt(1))>>),
             PyStr(<<97>>)}
      [] kind = "double" ->
            {PyFloat(FloatTable[2].d), PyFloat(FloatTable[4].d), PyInt(I64FromInt(1)),
             PyNone}
      [] kind = "float" ->
            {PyFloat(FloatTable[3].d), PyFloat(FloatTable[4].d), PyStr(<<97>>)}
      [] kind = "int" ->
            {PyInt(I64FromInt(-1)), PyInt(I64FromInt(IntMax("int"))),
             PyFloat(FloatTable[3].d), PyInt(I64Max), PyStr(<<97>>)}
      [] kind = "long" -> {PyInt(I64Min), PyInt(I64FromInt(1)), PyBigInt}
      [] kind = "string" -> {PyStr(<< >>), PyStr(<<97, 98>>), PyNone}
      [] kind = "object" ->
            {PyTuple(<< >>), PyNone,
             PyTuple(<<PySchema(IntSchema), PyInt(I64FromInt(-1))>>),
             PyTuple(<<PySchema(IntSchema), PyInt(I64Max)>>)}
            \cup {PyTuple(<<PyRecordType(t), PyRecord(r)>>) :
                     t \in ObjectTypes,
                     r \in IF top THEN UNION {ObjectRecords(u) : u \in ObjectTypes}
                           ELSE {Record_new(u) : u \in ObjectTypes}}
            \cup {PyTuple(<<PyRecordType(t), PyInt(I64Zero)>>) : t \in ObjectTypes}
            \cup {PyTuple(<<PyNone, PyNone>>)}
            \cup (IF top THEN {PyTuple(<<PySchema(IntSchema), PyInt(I64FromInt(-1)),
                                         PyNone>>)}
                  ELSE {})
      [] kind = "object_array" ->
            {PyTuple(<< >>), PyList(<< >>), PyTuple(<<PySchema(IntSchema)>>)}
            \cup {PyTuple(<<PySchema(IntSchema), PyList(q)>>) :
                     q \in {<< >>, <<PyInt(I64FromInt(64))>>,
                            <<PyInt(I64Zero), PyNone>>}}
            \cup UNION {{PyTuple(<<PyRecordType(t), o>>) :
                           o \in {PyNone, PyList(<< >>),
                                  PyList(<<PyRecord(Record_new(t))>>),
                                  PyList(<<PyRecord(Record_new(t)), PyInt(I64Zero)>>)}
                                 \cup {PyList(<<PyRecord(r)>>) :
                                          r \in IF top THEN ObjectRecords(t) ELSE {}}} :
                        t \in ObjectTypes}

(* a list or dict nested in another holds one item *)
NestedItems(n) == IF n > 0 THEN 1 ELSE 0

RECURSIVE ValuesOf(_, _, _)

(* for each field: PyNULL (no entry), None or a value *)
RECURSIVE FieldChoices(_, _)
FieldChoices(fields, n) ==
    IF fields = << >> THEN {<< >>}
    ELSE {<<c>> \o rest :
            c \in {PyNULL, PyNone} \cup ValuesOf(Head(fields), n, FALSE),
            rest \in FieldChoices(Tail(fields), n)}

(* the dict of the entries chosen, in field order *)
RECURSIVE RecordDict(_, _)
RecordDict(fields, choice) ==
    IF fields = << >> THEN << >>
    ELSE (IF Head(choice) = PyNULL THEN << >>
          ELSE << <<Head(fields).name, Head(choice)>> >>)
            \o RecordDict(Tail(fields), Tail(choice))

(* the values given to Schema.encode for a Schema: lists and dicts of  *)
(* at most n items, values nested in them of fewer                     *)
ValuesOf(schema, n, top) ==
    CASE schema.data_type \in LeafKinds -> LeafValues(schema.data_type, top)
      [] schema.data_type = "nullable" ->
            {PyNone} \cup ValuesOf(schema.fields[1], n, top)
      [] schema.data_type = "array" ->
            {PyList(<< >>), PyNone}
            \cup {PyList(q) :
                     q \in SeqsUpTo(ValuesOf(schema.fields[1], NestedItems(n), FALSE), n)}
      [] schema.data_type = "map" ->
            {PyDict(<< >>), PyNone, PyList(<< >>)}
            \cup {PyDict([k \in DOMAIN q |-> <<PyStr(<<96 + k>>), q[k]>>]) :
                     q \in SeqsUpTo(ValuesOf(schema.fields[1], NestedItems(n), FALSE), n)}
      [] schema.data_type = "record" ->
            {PyNone, PyList(<< >>), PyDict(<< <<PyStr(<<122>>), PyNone>> >>)}
            \cup {PyDict(RecordDict(schema.fields, c)) :
                     c \in FieldChoices(schema.fields, NestedItems(n))}

SchemaInit ==
    /\ \E a \in AllSchemaArgs : sch = [pc |-> "args", args |-> a]
    /\ gil = "caller"
    /\ RecordIdle
    /\ ArrayIdle
    /\ DynIdle
    /\ PrimIdle
    /\ MemIdle

schemaFrame == <<rec, step, enc, wire, dec, gil, arr, resp, fds, call, prim, mem>>

(* Schema(name, data_type, default_value, fields) *)
SchemaNew ==
    /\ sch.pc = "args"
    /\ LET Made(s) ==
               sch' = [pc |-> IF s.ok THEN "schema" ELSE "invalid",
                       schema |-> s.schema]
       IN  Made(Schema_new(sch.args.name, sch.args.data_type,
                           sch.args.default_value, sch.args.fields))
    /\ UNCHANGED schemaFrame

(* tuples of one item given for an object Schema *)
ShortTuples == {PyTuple(<<PySchema(IntSchema)>>)}

(* what PyTuple_GET_ITEM(value, 1) may find behind the only item of a  *)
(* tuple of one, when the read does not end the process                *)
PastEnd == {PyNone, PyInt(I64FromInt(-1))}

(* Schema_encode up to the allocation of the buffer: a rejection is    *)
(* raised only when prepare_schema has set a path.  The value is one   *)
(* the caller gives or, in round 2, the value Schema.decode returned   *)
(* for the bytes of round 1.  For a tuple of one item given for an     *)
(* object Schema, prepare_object_schema reads item 1 behind the end of *)
(* the tuple: the call ends the process or goes on with what it found  *)
EncodePrepare ==
    /\ sch.pc \in {"schema", "decoded"}
    /\ \E value \in IF sch.pc = "decoded" THEN {sch.value}
                    ELSE ValuesOf(sch.schema, MaxItems, TRUE)
                            \cup (IF sch.schema.data_type = "object" THEN ShortTuples
                                  ELSE {}) :
          LET Got(p) ==
                  sch' = [pc |-> IF ~p.ok /\ p.path # << >> THEN "raised"
                                 ELSE "allocated",
                          schema |-> sch.schema, value |-> value,
                          round |-> IF sch.pc = "decoded" THEN 2 ELSE 1,
                          bytes |-> IF sch.pc = "decoded" THEN sch.bytes ELSE << >>,
                          p |-> p, wrote |-> FALSE, out |-> << >>]
          IN  IF sch.pc = "schema" /\ sch.schema.data_type = "object"
                 /\ value \in ShortTuples
              THEN \/ sch' = [pc |-> "prepare_crashed", schema |-> sch.schema,
                              value |-> value]
                   \/ \E found \in PastEnd :
                         Got(prepare_schema(sch.schema,
                                            PyTuple(<<value.pv[1], found>>), 0))
              ELSE Got(prepare_schema(sch.schema, value, 0))
    /\ UNCHANGED schemaFrame

(* Schema_encode from write_schema on: the bytes object is returned    *)
(* when the write pass reports no error.  A read through NULL may end  *)
(* the process, or go on to raise or to return the buffer              *)
EncodeWrite ==
    /\ sch.pc = "allocated"
    /\ LET Wrote(w) ==
               \E pc \in IF w.err = ERR_NULL THEN {"crashed", "raised", "returned"}
                         ELSE IF w.err = ERR_NONE THEN {"returned"}
                         ELSE {"raised"} :
                  sch' = [sch EXCEPT !.pc = pc, !.wrote = TRUE, !.out = w.out]
       IN  Wrote(write_schema(sch.schema, << >>, sch.p.size, sch.p.prepared))
    /\ UNCHANGED schemaFrame

(* Schema.decode of the bytes Schema.encode returned for a value it    *)
(* accepted                                                            *)
Decode ==
    /\ sch.pc = "returned"
    /\ sch.round = 1
    /\ sch.p.ok
    /\ LET Read(d) ==
               sch' = [pc |-> IF d.ok THEN "decoded" ELSE "undecodable",
                       schema |-> sch.schema, value |-> d.value, bytes |-> sch.out]
       IN  Read(Schema_decode(sch.schema, sch.out))
    /\ UNCHANGED schemaFrame

SchemaNext ==
    \/ SchemaNew
    \/ EncodePrepare
    \/ EncodeWrite
    \/ Decode

SchemaSpec == SchemaInit /\ [][SchemaNext]_vars

(* the states in which a call of Schema.encode has ended *)
EncodeEnded == sch.pc \in {"raised", "returned", "crashed"}

(* C11: for every value the prepare pass accepts, the size prepare     *)
(* accumulated is the number of bytes the write pass writes: the write *)
(* pass never meets a short buffer (Schema.encode returns) and leaves  *)
(* no byte of the buffer unwritten                                     *)
C11_PreparedSizeIsWritten ==
    (EncodeEnded /\ sch.p.ok /\ sch.wrote) =>
        (sch.pc = "returned" /\ Len(sch.out) = sch.p.size)

(* C12: whenever the prepare pass rejects the value, at any depth and  *)
(* at the top-level node too, Schema.encode raises that error without  *)
(* running the write pass and returns no bytes                         *)
C12_RejectionIsRaised ==
    (sch.pc \in {"allocated", "raised", "returned", "crashed"} /\ ~sch.p.ok) =>
        (sch.pc = "raised" /\ ~sch.wrote)

(* a schema with an object or object_array node in it *)
RECURSIVE HasObjectKind(_)
HasObjectKind(schema) ==
    \/ schema.data_type \in {"object", "object_array"}
    \/ \E i \in DOMAIN schema.fields : HasObjectKind(schema.fields[i])

(* the second call of Schema.encode, on what Schema.decode returned *)
SecondEncode == sch.pc \in {"allocated", "raised", "returned", "crashed"} /\ sch.round = 2

SchemaAccepted == sch.pc \notin {"idle", "args", "invalid"}

(* C20: every Schema node of kind record that construction accepts has *)
(* at least one child, every child has a non-empty name, and the names *)
(* of the children are pairwise distinct                               *)
C20_RecordChildrenNamed ==
    (SchemaAccepted /\ sch.schema.data_type = "record") =>
        /\ Len(sch.schema.fields) > 0
        /\ \A i \in DOMAIN sch.schema.fields :
              /\ sch.schema.fields[i].name # PyNone
              /\ sch.schema.fields[i].name # PyStr(<< >>)
        /\ \A i, j \in DOMAIN sch.schema.fields :
              i # j => sch.schema.fields[i].name # sch.schema.fields[j].name

(* ------------------------------------------------------------------ *)
(* Primitive specification: one call of a function of avro.c or dt.c   *)
(* on arguments drawn from bounded sets.  prim holds the arguments and *)
(* then the function called with what it returned                      *)
(* ------------------------------------------------------------------ *)
(* longest buffer given to a function of avro.c *)
MaxBuf == 3

(* bytes of the buffers: small lengths and values, a space, a digit    *)
(* and a byte with the continuation bit                                *)
BufBytes == {0, 1, 4, 32, 48, 128}

RECURSIVE BuffersUpTo(_)
BuffersUpTo(n) ==
    IF n = 0 THEN {<< >>}
    ELSE BuffersUpTo(n - 1)
            \cup {Append(b, x) : b \in {c \in BuffersUpTo(n - 1) : Len(c) = n - 1},
                                 x \in BufBytes}

(* varints of five bytes: the last byte holds bits 28 and up *)
FiveByteVarints ==
    {<<128, 128, 128, 128, b>> : b \in {1, 15, 16, 127}}
        \cup {<<255, 255, 255, 255, b>> : b \in {15, 31}}

(* a buffer and a cursor within it; max is the end of the buffer *)
BufferArgs ==
    UNION {{[op |-> "args", kind |-> "buffer", buf |-> b, pos |-> p] :
              p \in 0..Len(b)} : b \in BuffersUpTo(MaxBuf)}
        \cup {[op |-> "args", kind |-> "buffer", buf |-> b, pos |-> 0] :
                 b \in FiveByteVarints}

(* what a call leaves: the error code and the cursor, before and after *)
AvroCalled(fn, err, end) ==
    prim' = [op |-> fn, buf |-> prim.buf, start |-> prim.pos, err |-> err, end |-> end]

AvroReads ==
    {"read_boolean", "read_bytes_len", "read_digits", "read_double", "read_float",
     "read_int", "read_long", "read_size"}

AvroSkips ==
    {"skip_bytes", "skip_char", "skip_double", "skip_float", "skip_int",
     "skip_long", "skip_whitespace"}

AvroWrites ==
    {"write_boolean", "write_bytes", "write_char", "write_digits", "write_double",
     "write_float", "write_int", "write_long", "write_size"}

(* the limits the callers of read_digits give: a month, an hour *)
DigitLimits == {<<2, 2, 1, 12>>, <<1, 2, 0, 23>>}

(* a call of a read function of avro.c *)
AvroRead ==
    /\ prim.op = "args"
    /\ prim.kind = "buffer"
    /\ \E fn \in AvroReads, lim \in DigitLimits :
          LET max == Len(prim.buf)
              Done(r) == AvroCalled(fn, r.err, r.pos)
              Digits(l, r) ==
                  prim' = [op |-> fn, buf |-> prim.buf, start |-> prim.pos,
                           err |-> r.err, end |-> r.pos, min_digits |-> l[1],
                           max_digits |-> l[2], digits |-> r.digits]
              Number(r) ==
                  prim' = [op |-> fn, buf |-> prim.buf, start |-> prim.pos,
                           err |-> r.err, end |-> r.pos, i |-> r.val]
          IN  CASE fn = "read_boolean" -> Done(read_boolean(prim.buf, prim.pos, max))
                [] fn = "read_bytes_len" -> Done(read_bytes_len(prim.buf, prim.pos, max))
                [] fn = "read_digits" ->
                      Digits(lim, read_digits(prim.buf, prim.pos, max,
                                              lim[1], lim[2], lim[3], lim[4]))
                [] fn = "read_double" -> Done(read_fixed(prim.buf, prim.pos, max, 8))
                [] fn = "read_float" -> Done(read_fixed(prim.buf, prim.pos, max, 4))
                [] fn = "read_int" -> Number(read_int(prim.buf, prim.pos, max))
                [] fn = "read_long" -> Done(read_long(prim.buf, prim.pos, max))
                [] fn = "read_size" -> Done(read_size(prim.buf, prim.pos, max))
    /\ UNCHANGED <<rec, step, enc, wire, dec, gil, arr, resp, fds, call, sch, mem>>

(* a call of a skip function of avro.c *)
AvroSkip ==
    /\ prim.op = "args"
    /\ prim.kind = "buffer"
    /\ \E fn \in AvroSkips, expected \in {32, 48}, min_chars \in 0..2 :
          LET max == Len(prim.buf)
              Done(r) == AvroCalled(fn, r.err, r.pos)
          IN  CASE fn = "skip_bytes" -> Done(skip_bytes(prim.buf, prim.pos, max))
                [] fn = "skip_char" -> Done(skip_char(prim.buf, prim.pos, max, expected))
                [] fn = "skip_double" -> Done(skip_fixed(prim.buf, prim.pos, max, 8))
                [] fn = "skip_float" -> Done(skip_fixed(prim.buf, prim.pos, max, 4))
                [] fn = "skip_int" -> Done(skip_int(prim.buf, prim.pos, max))
                [] fn = "skip_long" -> Done(skip_long(prim.buf, prim.pos, max))
                [] fn = "skip_whitespace" ->
                      Done(skip_whitespace(prim.buf, prim.pos, max, min_chars))
    /\ UNCHANGED <<rec, step, enc, wire, dec, gil, arr, resp, fds, call, sch, mem>>

(* a call of a write function of avro.c: the bytes before the cursor   *)
(* are what has been written; write_digits is asked for one to three   *)
(* digits at least                                                     *)
AvroWrite ==
    /\ prim.op = "args"
    /\ prim.kind = "buffer"
    /\ \E fn \in AvroWrites, i \in {-1, 0, 64}, b \in {<< >>, <<1>>, <<1, 4>>} :
          LET max == Len(prim.buf)
              out == SubSeq(prim.buf, 1, prim.pos)
              Done(w) == AvroCalled(fn, w.err, Len(w.out))
              Digits(min_digits, value, w) ==
                  prim' = [op |-> fn, buf |-> prim.buf, start |-> prim.pos,
                           err |-> w.err, end |-> Len(w.out),
                           min_digits |-> min_digits, i |-> value]
          IN  CASE fn = "write_boolean" -> Done(write_boolean(out, max, i # 0))
                [] fn = "write_bytes" -> Done(write_bytes(out, max, b))
                [] fn = "write_char" -> Done(write_char(out, max, 48))
                [] fn = "write_digits" ->
                      Digits(Len(b) + 1, i + 1,
                             write_digits(out, max, Len(b) + 1, i + 1))
                [] fn = "write_double" -> Done(write_fixed(out, max, [k \in 1..8 |-> 0]))
                [] fn = "write_float" -> Done(write_fixed(out, max, [k \in 1..4 |-> 0]))
                [] fn = "write_int" -> Done(write_int(out, max, i))
                [] fn = "write_long" -> Done(write_long(out, max, I64FromInt(i)))
                [] fn = "write_size" -> Done(write_size(out, max, i + 1))
    /\ UNCHANGED <<rec, step, enc, wire, dec, gil, arr, resp, fds, call, sch, mem>>

AvroCall == prim.op \in AvroReads \cup AvroSkips \cup AvroWrites
(* years about the ends of the range, a century that is no leap year,  *)
(* one that is, a common year and a leap year                          *)
DateYears == {MIN_YEAR - 1, MIN_YEAR, 1900, 2000, 2023, 2024, MAX_YEAR, MAX_YEAR + 1}

DateArgs ==
    {[op |-> "args", kind |-> "date", year |-> y, month |-> m, day |-> d] :
        y \in DateYears, m \in 0..13, d \in 0..32}

(* what compute_days can return.  The year is tested first; with a     *)
(* month outside 1..12 the reads of days_in_month[month - 1] and of    *)
(* the other tables fall outside the tables, and the value read        *)
(* decides the result                                                  *)
compute_days_results(year, month, day) ==
    IF year < MIN_YEAR \/ year > MAX_YEAR \/ month \in 1..12
    THEN {compute_days(year, month, day)}
    ELSE {[ok |-> FALSE, yday |-> 0, wday |-> 0]}
            \cup {[ok |-> TRUE, yday |-> y, wday |-> w] : y \in {0, 366}, w \in {1, 7}}

(* encode_date(year, month, day, &date), date holding 0 before *)
EncodeDate ==
    /\ prim.op = "args"
    /\ prim.kind = "date"
    /\ \E c \in compute_days_results(prim.year, prim.month, prim.day) :
          prim' = [op |-> "encode_date", year |-> prim.year, month |-> prim.month,
                   day |-> prim.day, ok |-> c.ok,
                   date |-> IF ~c.ok THEN 0
                            ELSE IF prim.month \in 1..12
                            THEN encode_date(prim.year, prim.month, prim.day).val
                            ELSE (prim.year - DATE_BASE_YEAR) * 2097152
                                     + prim.month * 131072 + prim.day * 4096
                                     + c.yday * 8 + c.wday]
    /\ UNCHANGED <<rec, step, enc, wire, dec, gil, arr, resp, fds, call, sch, mem>>

(* encode_datetime(year, month, day, hour, minute, second,             *)
(* millisecond, &datetime), datetime holding 0 before                  *)
EncodeDatetime ==
    /\ prim.op = "args"
    /\ prim.kind = "date"
    /\ \E c \in compute_days_results(prim.year, prim.month, prim.day),
          t \in {<<0, 0, 0, 0>>, <<23, 59, 59, 999>>} :
          prim' = [op |-> "encode_datetime", year |-> prim.year,
                   month |-> prim.month, day |-> prim.day, ok |-> c.ok,
                   datetime |-> IF ~c.ok THEN DTZero
                                ELSE DTPack(prim.year, prim.month, prim.day,
                                            t[1], t[2], t[3], t[4], c.yday, c.wday)]
    /\ UNCHANGED <<rec, step, enc, wire, dec, gil, arr, resp, fds, call, sch, mem>>

(* every DayStride-th day of the range is taken *)
DayStride == 97

(* days since 1000-01-01: the ends of the range and the days about the *)
(* end of February in 1000, 1900, 2000 and 2400, and every             *)
(* DayStride-th day between                                            *)
EpochDays ==
    {0, 58, 59, 328776, 328777, 365300, 365301, 365302, 365607, 365608, 511398,
     694325}
    \cup {d * DayStride : d \in 0..(694325 \div DayStride)}

MsSamples == {0, 59999, 3600000, MSEC_PER_DAY - 1}

EpochArgs ==
    {[op |-> "args", kind |-> "epoch",
      epoch_ms |-> I64Add(MIN_EPOCH_MS, DaysMsToI64(d, ms))] :
        d \in EpochDays, ms \in MsSamples}

EpochToDatetime ==
    /\ prim.op = "args"
    /\ prim.kind = "epoch"
    /\ prim' = [op |-> "epoch_ms_to_datetime", epoch_ms |-> prim.epoch_ms,
                datetime |-> epoch_ms_to_datetime(prim.epoch_ms)]
    /\ UNCHANGED <<rec, step, enc, wire, dec, gil, arr, resp, fds, call, sch, mem>>

DatetimeToEpoch ==
    /\ prim.op = "epoch_ms_to_datetime"
    /\ prim' = [op |-> "datetime_to_epoch_ms", epoch_ms |-> prim.epoch_ms,
                datetime |-> prim.datetime,
                back |-> datetime_to_epoch_ms(prim.datetime)]
    /\ UNCHANGED <<rec, step, enc, wire, dec, gil, arr, resp, fds, call, sch, mem>>

(* 64-bit words about every length of varint: one limb set, the limbs  *)
(* below it all 0 or all 1 bits, and the complements of these          *)
LongWords ==
    LET Word(k, a, c) ==
            [j \in 1..10 |-> IF j < k THEN c
                             ELSE IF j = k THEN (IF k = 10 THEN a % 2 ELSE a)
                             ELSE 0]
        Words == {Word(k, a, c) : k \in 1..10, a \in {1, 63, 64, 127}, c \in {0, 127}}
    IN  {I64Zero} \cup Words \cup {I64Not(w) : w \in Words}

LongArgs == {[op |-> "args", kind |-> "long", l |-> w] : w \in LongWords}

SizeLong ==
    /\ prim.op = "args"
    /\ prim.kind = "long"
    /\ prim' = [op |-> "size_long", l |-> prim.l, size |-> size_long(prim.l)]
    /\ UNCHANGED <<rec, step, enc, wire, dec, gil, arr, resp, fds, call, sch, mem>>

(* write_long, after size_long, into a buffer of ten bytes, the        *)
(* longest varint                                                      *)
WriteLong ==
    /\ prim.op = "size_long"
    /\ LET Wrote(w) ==
               prim' = [op |-> "size_long, write_long", l |-> prim.l, size |-> prim.size,
                        err |-> w.err, written |-> Len(w.out)]
       IN  Wrote(write_long(<< >>, 10, prim.l))
    /\ UNCHANGED <<rec, step, enc, wire, dec, gil, arr, resp, fds, call, sch, mem>>

(* two decimal digits, four decimal digits *)
TwoDigits(n) == <<48 + (n \div 10), 48 + (n % 10)>>

FourDigits(n) == TwoDigits(n \div 100) \o TwoDigits(n % 100)

(* "HH:MM:SS" followed by a fraction, "YYYY-MM-DD" *)
TimeText(t, fraction) ==
    TwoDigits(t[1]) \o <<58>> \o TwoDigits(t[2]) \o <<58>> \o TwoDigits(t[3]) \o fraction

DateText(d) == FourDigits(d[1]) \o <<45>> \o TwoDigits(d[2]) \o <<45>> \o TwoDigits(d[3])

(* no fraction, ".5", ".50", ".999", ".0001", ".9999", ".999999",      *)
(* ".0999999"                                                          *)
Fractions ==
    {<< >>, <<46, 53>>, <<46, 53, 48>>, <<46, 57, 57, 57>>, <<46, 48, 48, 48, 49>>,
     <<46, 57, 57, 57, 57>>, <<46, 57, 57, 57, 57, 57, 57>>,
     <<46, 48, 57, 57, 57, 57, 57, 57>>}

TextTimes == {<<h, m, s>> : h \in {0, 23}, m \in {0, 59}, s \in {0, 51, 59}}

TextDates == {<<1000, 1, 1>>, <<1900, 2, 29>>, <<2000, 2, 29>>, <<2001, 4, 31>>,
              <<2900, 12, 31>>}

(* the text of a date, datetime or time column as a server sends it,   *)
(* with the date and the time it was written from                      *)
TextArgs ==
    {[op |-> "args", kind |-> "text", dt |-> "time", date |-> <<0, 0, 0>>, time |-> t,
      text |-> TimeText(t, f)] : t \in TextTimes, f \in Fractions}
    \cup {[op |-> "args", kind |-> "text", dt |-> "date", date |-> d,
           time |-> <<0, 0, 0>>, text |-> DateText(d)] : d \in TextDates}
    \cup {[op |-> "args", kind |-> "text", dt |-> "datetime", date |-> d,
           time |-> <<0, 0, 0>>, text |-> DateText(d)] : d \in TextDates}
    \cup {[op |-> "args", kind |-> "text", dt |-> "datetime", date |-> d, time |-> t,
           text |-> DateText(d) \o <<32>> \o TimeText(t, f)] :
             d \in TextDates, t \in {<<0, 0, 0>>, <<23, 59, 59>>}, f \in Fractions}

(* read_column[data_type] on the text as a string value: the packed    *)
(* value is a number for a date and a time and [hi, lo] for a datetime *)
ReadText ==
    /\ prim.op = "args"
    /\ prim.kind = "text"
    /\ LET buf == BytesOfLong(I64FromInt(Len(prim.text))) \o prim.text
           Read(r) ==
               prim' = [op |-> "read_column", dt |-> prim.dt, date |-> prim.date,
                        time |-> prim.time, text |-> prim.text, err |-> r.err,
                        value |-> r.cell.val]
       IN  Read(read_column(prim.dt, buf, 0, Len(buf)))
    /\ UNCHANGED <<rec, step, enc, wire, dec, gil, arr, resp, fds, call, sch, mem>>

PrimInit ==
    /\ \/ prim \in BufferArgs
       \/ prim \in DateArgs
       \/ prim \in EpochArgs
       \/ prim \in LongArgs
       \/ prim \in TextArgs
    /\ gil = "caller"
    /\ RecordIdle
    /\ ArrayIdle
    /\ DynIdle
    /\ SchemaIdle
    /\ MemIdle

PrimNext ==
    \/ AvroRead
    \/ AvroSkip
    \/ AvroWrite
    \/ EncodeDate
    \/ EncodeDatetime
    \/ EpochToDatetime
    \/ DatetimeToEpoch
    \/ SizeLong
    \/ WriteLong
    \/ ReadText

PrimSpec == PrimInit /\ [][PrimNext]_vars

(* C14: every read, skip and write function of avro.c leaves the       *)
(* cursor where it was when it returns an error; the cursor moves only *)
(* when ERR_NONE is returned                                           *)
C14_ErrorKeepsCursor ==
    (AvroCall /\ prim.err # ERR_NONE) => prim.end = prim.start

(* the days of a month of the calendar *)
DaysInMonth(month, year) ==
    IF month = 2
    THEN (IF (year % 4 = 0 /\ year % 100 # 0) \/ year % 400 = 0 THEN 29 ELSE 28)
    ELSE IF month \in {4, 6, 9, 11} THEN 30 ELSE 31

ValidDate(year, month, day) ==
    /\ year >= 1000 /\ year <= 2900
    /\ month >= 1 /\ month <= 12
    /\ day >= 1 /\ day <= DaysInMonth(month, year)

DateEncoded == prim.op \in {"encode_date", "encode_datetime"}

(* the packed value is still the 0 the variable held before the call *)
NothingPacked ==
    IF prim.op = "encode_date" THEN prim.date = 0 ELSE prim.datetime = DTZero

(* C17 as stated: encode_date and encode_datetime return true exactly  *)
(* for the triples with year in 1000..2900, month in 1..12 and day in  *)
(* 1..days-in-month, and for every other triple return false and write *)
(* no packed value                                                     *)
C17_ValidatesEveryTriple ==
    DateEncoded =>
        /\ prim.ok <=> ValidDate(prim.year, prim.month, prim.day)
        /\ ~prim.ok => NothingPacked

(* C17 amended: given a month in 1..12 and a day in 1..31, which dt.h  *)
(* requires of the caller, encode_date and encode_datetime return true *)
(* exactly when the year is in 1000..2900 and the day is at most the   *)
(* days of the month (29 February only in leap years); otherwise they  *)
(* return false and write no packed value                              *)
C17_ValidatesYearAndMonthLength ==
    (DateEncoded /\ prim.month \in 1..12 /\ prim.day \in 1..31) =>
        /\ prim.ok <=> ValidDate(prim.year, prim.month, prim.day)
        /\ ~prim.ok => NothingPacked

C17_Feb29Refused ==
    /\ prim.op = "encode_datetime"
    /\ prim.year = 1900
    /\ prim.month = 2
    /\ prim.day = 29
    /\ ~prim.ok
    /\ prim.datetime = DTZero

(* C18: for every t with MIN_EPOCH_MS <= t <= MAX_EPOCH_MS,            *)
(* datetime_to_epoch_ms(epoch_ms_to_datetime(t)) = t                   *)
C18_EpochRoundTrip ==
    prim.op = "datetime_to_epoch_ms" =>
        /\ ~I64Less(prim.epoch_ms, MIN_EPOCH_MS)
        /\ ~I64Less(MAX_EPOCH_MS, prim.epoch_ms)
        /\ prim.back = prim.epoch_ms

C18_LeapDayBack ==
    /\ prim.op = "datetime_to_epoch_ms"
    /\ DTFields(prim.datetime).year = 2000
    /\ DTFields(prim.datetime).month = 2
    /\ DTFields(prim.datetime).day = 29
    /\ DTFields(prim.datetime).hour = 23
    /\ prim.back = prim.epoch_ms

(* C19: for every signed 64-bit n, size_long(n) is the number of bytes *)
(* write_long writes for n into a buffer with room for them            *)
C19_SizeIsWritten ==
    prim.op = "size_long, write_long" =>
        /\ prim.err = ERR_NONE
        /\ prim.written = prim.size

C19_LongestWritten ==
    /\ prim.op = "size_long, write_long"
    /\ prim.l = I64Min
    /\ prim.size = 10
    /\ prim.written = 10

(* C15: when setting one column from a host value fails (an object of  *)
(* the wrong type, a string longer than the column, a number out of    *)
(* range, None for a non-nullable column), every raw cell and every    *)
(* cached host value of the record, the column's own among them, is    *)
(* what it was before the call                                         *)
C15_FailedSetKeepsColumn ==
    [][step' = "ass_item_failed" => (rec'.cells = rec.cells /\ rec'.values = rec.values)]_vars

(* a refused assignment on a record whose columns all hold a value set *)
(* from the host                                                       *)
C15_RefusedOnSetColumns ==
    /\ step = "ass_item_failed"
    /\ Len(rec.type) = 3
    /\ \A i \in DOMAIN rec.type : rec.values[i] \notin {NULLV, NONE}
    /\ rec.cells[1].val = -1
    /\ rec.cells[3].len = 1

(* C16: after any sequence of construction, item and slice assignment  *)
(* and deletion, update and decode, completed or failed, no cell of a  *)
(* column declared non-nullable has len = -1                           *)
C16_NonNullableNeverNull ==
    \A i \in DOMAIN rec.type :
        ~rec.type[i].is_nullable => rec.cells[i].len # -1

(* a failed decode that got past the first column and cleared the      *)
(* columns after it: the nullable one is null, the non-nullable char   *)
(* column is empty                                                     *)
C16_ClearedByFailedDecode ==
    /\ step = "decode_failed"
    /\ Len(rec.type) = 3
    /\ rec.cells[1].val # 0
    /\ rec.cells[2].len = -1
    /\ rec.cells[3] = [len |-> 0, val |-> << >>]

(* the states in which prepare_schema has run on the value given *)
PrepareEnded ==
    sch.pc \in {"allocated", "raised", "returned", "crashed", "prepare_crashed"}

(* C21: the prepare step for kind object accepts a tuple only if it is *)
(* empty or has exactly the two items (type, object); a tuple of any   *)
(* other length is rejected, without an item of it being read          *)
C21_OnlyEmptyOrPair ==
    (/\ PrepareEnded
     /\ sch.schema.data_type = "object"
     /\ sch.value.py = "tuple"
     /\ Len(sch.value.pv) \notin {0, 2}) =>
        (sch.pc # "prepare_crashed" /\ ~sch.p.ok)

(* the characters write_digits has to write: the decimal digits of the *)
(* value, at least min_digits of them                                  *)
DigitsNeeded(min_digits, i) ==
    IF Len(DecimalDigits(i)) > min_digits THEN Len(DecimalDigits(i)) ELSE min_digits

(* C22: write_digits returns ok whenever the bytes left between the    *)
(* cursor and max are at least the characters it has to write, also    *)
(* when they fill the bytes left exactly, and eof only when fewer are  *)
(* left                                                                *)
C22_WritesWhenItFits ==
    prim.op = "write_digits" =>
        (prim.err = ERR_NONE <=>
            Len(prim.buf) - prim.start >= DigitsNeeded(prim.min_digits, prim.i))

(* C23: read_digits consumes at most max_digits digits: on success the *)
(* count it reports is between min_digits and max_digits and the       *)
(* cursor has moved by that count                                      *)
C23_AtMostMaxDigits ==
    (prim.op = "read_digits" /\ prim.err = ERR_NONE) =>
        /\ prim.min_digits <= prim.digits
        /\ prim.digits <= prim.max_digits
        /\ prim.end = prim.start + prim.digits

(* the number the varint at the cursor encodes, read without a limit   *)
(* on its width                                                        *)
EncodedNumber == read_long(prim.buf, prim.start, Len(prim.buf))

FitsInt32(l) ==
    /\ ~I64Less(l, I64FromInt(IntMin("int")))
    /\ ~I64Less(I64FromInt(IntMax("int")), l)

(* C28: read_int returns overflow for every varint of at most 5 bytes  *)
(* whose decoded value does not fit a signed 32-bit integer, and when  *)
(* it returns ok the value is the number encoded, with no high-order   *)
(* bit dropped                                                         *)
C28_OverflowNotTruncation ==
    (/\ prim.op = "read_int"
     /\ EncodedNumber.err = ERR_NONE
     /\ EncodedNumber.pos - prim.start <= 5) =>
        /\ ~FitsInt32(EncodedNumber.val) => prim.err = ERR_OVERFLOW
        /\ prim.err = ERR_NONE => I64FromInt(prim.i) = EncodedNumber.val

(* C29: the view of the buffer that from_dynamic_schema, decode_records *)
(* and decode_dynamic_records acquire is released exactly once on every *)
(* way out of the call, with a result or with an error                  *)
C29_ViewReleasedOnce ==
    /\ fds.called => fds.released = 1
    /\ call.pc \in {"returned", "failed"} => call.released = 1

(* ------------------------------------------------------------------ *)
(* Skip specification: RecordType.from_dynamic_schema followed turn by *)
(* turn through the loop that skips the data of each column, on        *)
(* buffers of any content.  call = [fn, pc, i, pos, error, released]   *)
(* holds the column index, the cursor, the exception raised and the    *)
(* releases of the buffer                                              *)
(* ------------------------------------------------------------------ *)
MaxSkip == 4

(* the varints of 0, -1, 1, -2, -3 and -4 *)
SkipBytes == {0, 1, 2, 3, 5, 7}

RECURSIVE SkipBuffers(_)
SkipBuffers(n) ==
    IF n = 0 THEN {<< >>}
    ELSE SkipBuffers(n - 1)
            \cup {Append(b, x) : b \in {c \in SkipBuffers(n - 1) : Len(c) = n - 1},
                                 x \in SkipBytes}

SkipFields ==
    {<<Column("int", FALSE)>>, <<Column("string", TRUE), Column("int", FALSE)>>}

(* buffers of any content, and the responses with data of the Decoder  *)
(* specification                                                       *)
SkipResponses ==
    {[kind |-> "skip", fields |-> f, buf |-> b] :
        f \in SkipFields, b \in SkipBuffers(MaxSkip)}
    \cup UNION {{[kind |-> "skip", fields |-> r.fields, buf |-> r.buf] :
                    r \in DataResponses(f)} : f \in DynFields}

(* a cursor moved back by more than the model counts: the lowest     *)
(* position its integers hold                                          *)
FarBefore == -IntMax("int")

(* one turn of while (1) of the skip phase: [err, pos, more], more     *)
(* telling that the column goes on with another block.  pos += size    *)
(* is done for every size that passes pos + size > max, a negative     *)
(* one included                                                        *)
skip_turn(buf, pos, max, def) ==
    LET Stop(e, p) == [err |-> e, pos |-> p, more |-> FALSE]
        Values(v) == [err |-> v.err, pos |-> v.pos, more |-> v.err = ERR_NONE]
        Size(s) ==
            IF s.err # ERR_NONE THEN Stop(s.err, s.pos)
            ELSE IF ~I64Neg(s.val) /\ (~I64Small(s.val) \/ s.pos + I64ToInt(s.val) > max)
                 THEN Stop(ERR_EOF, s.pos)
            ELSE [err |-> ERR_NONE,
                  pos |-> IF I64Small(s.val) THEN s.pos + I64ToInt(s.val) ELSE FarBefore,
                  more |-> TRUE]
        Count(c) ==
            IF c.err # ERR_NONE THEN Stop(c.err, c.pos)
            ELSE IF c.val = I64Zero THEN Stop(ERR_NONE, c.pos)
            ELSE IF I64Neg(c.val) THEN Size(read_long(buf, c.pos, max))
            ELSE Values(skip_values(buf, c.pos, max, def, LoopCount(c.val)))
    IN  Count(read_size(buf, pos, max))

skipFrame == <<rec, step, enc, wire, dec, gil, arr, resp, sch, prim, mem>>

(* from_dynamic_schema up to the loop over the fields *)
SkipStart ==
    /\ call.pc = "idle"
    /\ resp.kind = "skip"
    /\ call' = [fn |-> "from_dynamic_schema", pc |-> "skip", i |-> 0, pos |-> 0,
                error |-> "", released |-> 0]
    /\ UNCHANGED <<fds, skipFrame>>

(* one turn of while (1) for column i with the cursor in the buffer:   *)
(* an error is raised, the column goes on, or it ends and the next     *)
(* column, after the last one column_headers, follows; a turn that    *)
(* leaves the cursor where it was leaves the state as it was, and the  *)
(* loop then takes that turn for ever                                  *)
SkipTurn ==
    /\ call.pc = "skip"
    /\ call.pos >= 0
    /\ LET Turned(t) ==
               IF t.err # ERR_NONE
               THEN call' = [call EXCEPT !.pc = "failed", !.pos = t.pos,
                                         !.error = handle_read_error(t.err),
                                         !.released = @ + 1]
               ELSE IF t.more THEN call' = [call EXCEPT !.pos = t.pos]
               ELSE call' = [call EXCEPT !.pos = t.pos, !.i = @ + 1,
                                         !.pc = IF call.i + 1 = Len(resp.fields)
                                                THEN "names" ELSE "skip"]
       IN  Turned(skip_turn(resp.buf, call.pos, Len(resp.buf),
                            resp.fields[call.i + 1]))
    /\ UNCHANGED <<fds, skipFrame>>

(* a turn with the cursor before the buffer reads memory that is not   *)
(* the buffer's: the process ends, an error is raised for what was     *)
(* found there, or the call goes on there ("undefined")                *)
SkipOutside ==
    /\ call.pc = "skip"
    /\ call.pos < 0
    /\ \/ call' = [call EXCEPT !.pc = "crashed"]
       \/ call' = [call EXCEPT !.pc = "undefined"]
       \/ \E e \in {ERR_EOF, ERR_OVERFLOW} :
             call' = [call EXCEPT !.pc = "failed", !.error = handle_read_error(e),
                                  !.released = @ + 1]
    /\ UNCHANGED <<fds, skipFrame>>

(* column_headers, column_datatypes and the RecordType constructor *)
SkipNames ==
    /\ call.pc = "names"
    /\ LET Result(f) ==
               /\ fds' = [called |-> TRUE, err |-> f.err, ends |-> f.ends,
                          columns |-> f.columns, released |-> f.released]
               /\ call' = [call EXCEPT !.pc = IF f.err = "" THEN "returned" ELSE "failed",
                                       !.error = f.err, !.released = f.released]
       IN  Result(from_dynamic_schema(resp.fields, resp.buf))
    /\ UNCHANGED skipFrame

SkipInit ==
    /\ resp \in SkipResponses
    /\ fds = [called |-> FALSE]
    /\ call = [pc |-> "idle"]
    /\ gil = "caller"
    /\ RecordIdle
    /\ ArrayIdle
    /\ SchemaIdle
    /\ PrimIdle
    /\ MemIdle

SkipNext ==
    \/ SkipStart
    \/ SkipTurn
    \/ SkipOutside
    \/ SkipNames

SkipSpec == SkipInit /\ [][SkipNext]_vars

(* the call is run to its end: it is never left standing at a step it  *)
(* can take                                                            *)
SkipLiveSpec == SkipSpec /\ WF_vars(SkipNext)

(* C24: from_dynamic_schema returns, with a RecordType or with an      *)
(* error, after finitely many steps for every schema and every buffer  *)
C24_Returns == <>(call.pc \in {"returned", "failed"})

(* C25: in the column-skip phase of from_dynamic_schema the cursor     *)
(* stays between the start of the buffer and max at every step         *)
C25_CursorInRange ==
    call.pc # "idle" => (call.pos >= 0 /\ call.pos <= Len(resp.buf))

(* C26: every date, datetime and time cell a successful decode         *)
(* produces holds in-range fields: month 1..12, a day of that month    *)
(* and year, hour 0..23, minute 0..59, second 0..59 and millisecond    *)
(* 0..999, and the hour, minute and second are the ones of the text:   *)
(* no field has spilled into its neighbour                             *)
C26_DecodedFieldsInRange ==
    (prim.op = "read_column" /\ prim.err = ERR_NONE) =>
        LET InTime(f) ==
                /\ f.hour = prim.time[1] /\ f.hour <= 23
                /\ f.minute = prim.time[2] /\ f.minute <= 59
                /\ f.sec = prim.time[3] /\ f.sec <= 59
                /\ f.msec <= 999
            InDate(f) == ValidDate(f.year, f.month, f.day)
        IN  CASE prim.dt = "time" -> InTime(TimeFields(prim.value))
              [] prim.dt = "date" -> InDate(DateFields(prim.value))
              [] prim.dt = "datetime" ->
                    InDate(DTFields(prim.value)) /\ InTime(DTFields(prim.value))

(* ------------------------------------------------------------------ *)
(* Record.update that fails                                            *)
(* ------------------------------------------------------------------ *)
(* C27: a Record.update call with a sequence or mapping that fails,    *)
(* because the sequence has the wrong number of values, a key names no *)
(* column or a value is refused by its column, leaves every cell of    *)
(* the record as it was before the call                                *)
C27_FailedUpdateKeepsCells ==
    [][step' = "update_failed" => rec'.cells = rec.cells]_vars

(* ------------------------------------------------------------------ *)
(* Memory specification: one Record of bytes and string columns at the *)
(* level of pointers.  mem.column_values[i] is the ColumnValue of      *)
(* column i, [len, data]; mem.values[i] the slot of the values list;   *)
(* mem.blocks the malloc'd blocks not yet freed; mem.refs[o] the       *)
(* reference count of host object o, 0 when it does not exist;         *)
(* mem.held the objects the caller holds a reference to; mem.fault     *)
(* tells that free was given a block already freed or a pointer into a *)
(* host object.  Columns count from 1.                                 *)
(* ------------------------------------------------------------------ *)
(* blocks malloc can hand out *)
MaxBlocks == 4

(* host objects that can exist at a time *)
MaxObjects == 3

NullPtr == [k |-> "null", id |-> 0]
Block(b) == [k |-> "block", id |-> b]
Inside(o) == [k |-> "object", id |-> o]
PyNoneRef == [k |-> "None", id |-> 0]

MemTypes ==
    {<<Column("bytes", FALSE), Column("bytes", TRUE), Column("bytes", FALSE)>>,
     <<Column("string", TRUE), Column("string", FALSE)>>}

(* the block malloc returns: the first one that is neither allocated   *)
(* nor still pointed at by a cell, 0 when there is none (out of        *)
(* memory)                                                             *)
NextBlock(m) ==
    LET Unused == {b \in 1..MaxBlocks :
                      /\ b \notin m.blocks
                      /\ \A i \in DOMAIN m.column_values :
                            m.column_values[i].data # Block(b)}
    IN  IF Unused = {} THEN 0 ELSE CHOOSE b \in Unused : \A c \in Unused : b <= c

(* the host object a constructor returns, 0 when there is none *)
NextObject(m) ==
    LET Unused == {o \in 1..MaxObjects :
                      /\ m.refs[o] = 0
                      /\ \A i \in DOMAIN m.column_values :
                            /\ m.column_values[i].data # Inside(o)
                            /\ m.values[i] # Inside(o)}
    IN  IF Unused = {} THEN 0 ELSE CHOOSE o \in Unused : \A c \in Unused : o <= c

(* free(p) *)
free(m, p) ==
    IF p = NullPtr THEN m
    ELSE IF p.k = "block" /\ p.id \in m.blocks THEN [m EXCEPT !.blocks = @ \ {p.id}]
    ELSE [m EXCEPT !.fault = TRUE]

(* Py_DECREF of a slot of the values list; None is never destroyed *)
Py_DECREF(m, v) ==
    IF v.k = "object" /\ m.refs[v.id] > 0 THEN [m EXCEPT !.refs[v.id] = @ - 1]
    ELSE IF v.k = "object" THEN [m EXCEPT !.fault = TRUE]
    ELSE m

Py_INCREF(m, v) ==
    IF v.k = "object" THEN [m EXCEPT !.refs[v.id] = @ + 1] ELSE m

(* Record_new *)
MemNew(type) ==
    [pc |-> "new",
     type |-> type,
     column_values |-> [i \in DOMAIN type |->
                           [len |-> -IsNullable(type[i]), data |-> NullPtr]],
     values |-> [i \in DOMAIN type |-> NullPtr],
     blocks |-> {},
     refs |-> [o \in 1..MaxObjects |-> 0],
     held |-> {},
     fault |-> FALSE]

(* clear_bytes_column freeing the buffer whatever the values list holds *)
clear_bytes_pointers_frees(m, index, from_python) ==
    LET Cleared(n) ==
            [n EXCEPT !.column_values[index] =
                          [len |-> -IsNullable(m.type[index]), data |-> NullPtr]]
    IN  IF from_python
        THEN Cleared([free(m, m.column_values[index].data)
                      EXCEPT !.values[index] = NullPtr])
        ELSE Cleared(free(m, m.column_values[index].data))

(* clear_bytes_column, which clear_string_column calls *)
clear_bytes_pointers(m, index, from_python) ==
    LET Cleared(n) ==
            [n EXCEPT !.column_values[index] =
                          [len |-> -IsNullable(m.type[index]), data |-> NullPtr]]
        old_value == m.values[index]
    IN  IF from_python
        THEN Cleared([(IF old_value = NullPtr
                       THEN free(m, m.column_values[index].data)
                       ELSE Py_DECREF(m, old_value))
                      EXCEPT !.values[index] = NullPtr])
        ELSE Cleared(free(m, m.column_values[index].data))

(* get_bytes_column and get_string_column under _Record_get_value;     *)
(* made tells whether the host object could be built                   *)
get_pointers(m, index, made) ==
    LET o == NextObject(m)
        Built(n) ==
            [n EXCEPT !.refs[o] = 1,
                      !.column_values[index].data = Inside(o),
                      !.values[index] = Inside(o)]
    IN  IF m.values[index] # NullPtr THEN [ok |-> TRUE, m |-> m]
        ELSE IF m.column_values[index].len < 0
        THEN [ok |-> TRUE, m |-> [m EXCEPT !.values[index] = PyNoneRef]]
        ELSE IF ~made \/ o = 0 THEN [ok |-> FALSE, m |-> m]
        ELSE [ok |-> TRUE, m |-> Built(free(m, m.column_values[index].data))]

(* set_bytes_column and set_string_column; o is the object             *)
(* PyObject_Bytes / PyObject_Str returned, its reference counted       *)
(* already, 0 when the conversion failed; the length is not followed   *)
set_pointers(m, index, o) ==
    LET old_value == m.values[index]
        Stored(n) ==
            [n EXCEPT !.values[index] = Inside(o),
                      !.column_values[index] = [len |-> 0, data |-> Inside(o)]]
    IN  IF o = 0 THEN [ok |-> FALSE, m |-> m]
        ELSE [ok |-> TRUE,
              m |-> Stored(IF old_value = NullPtr
                           THEN free(m, m.column_values[index].data)
                           ELSE Py_DECREF(m, old_value))]

(* _Record_set_value; value is "delete" (NULL), "None" or "object",    *)
(* the last with o as in set_pointers                                  *)
set_value_pointers(m, index, value, o) ==
    IF value \in {"delete", "None"}
    THEN IF value = "None" /\ ~m.type[index].is_nullable THEN [ok |-> FALSE, m |-> m]
         ELSE [ok |-> TRUE, m |-> clear_bytes_pointers(m, index, TRUE)]
    ELSE set_pointers(m, index, o)

(* the loop of read_record from column i (counted from 0) over a       *)
(* buffer whose value for column fail (counted from 1) cannot be read  *)
(* and whose columns in nulls are null: read_bytes_column allocates    *)
(* the block of each value; [ok, m, i]                                 *)
RECURSIVE read_pointers_loop(_, _, _, _)
read_pointers_loop(m, i, fail, nulls) ==
    LET b == NextBlock(m)
    IN  IF i >= Len(m.type) THEN [ok |-> TRUE, m |-> m, i |-> i]
        ELSE IF i + 1 = fail THEN [ok |-> FALSE, m |-> m, i |-> i]
        ELSE IF i + 1 \in nulls
        THEN read_pointers_loop([m EXCEPT !.column_values[i + 1].len = -1],
                                i + 1, fail, nulls)
        ELSE IF b = 0 THEN [ok |-> FALSE, m |-> m, i |-> i]
        ELSE read_pointers_loop(
                 [m EXCEPT !.blocks = @ \cup {b},
                           !.column_values[i + 1] = [len |-> 0, data |-> Block(b)]],
                 i + 1, fail, nulls)

(* the error exit of read_record: for (; i > 0; --i) clear_column(i)   *)
RECURSIVE read_pointers_cleanup(_, _)
read_pointers_cleanup(m, i) ==
    IF i > 0 THEN read_pointers_cleanup(clear_bytes_pointers(m, i + 1, FALSE), i - 1)
    ELSE m

RECURSIVE clear_all_pointers(_, _)
clear_all_pointers(m, i) ==
    IF i > Len(m.type) THEN m
    ELSE clear_all_pointers(clear_bytes_pointers(m, i, TRUE), i + 1)

(* Record.decode: clears every column, then read_record *)
decode_pointers(m, fail, nulls) ==
    LET Exit(x) ==
            IF x.ok THEN [ok |-> TRUE, m |-> x.m]
            ELSE [ok |-> FALSE, m |-> read_pointers_cleanup(x.m, x.i)]
    IN  Exit(read_pointers_loop(clear_all_pointers(m, 1), 0, fail, nulls))

MemInit ==
    /\ \E t \in MemTypes : mem = MemNew(t)
    /\ gil = "caller"
    /\ RecordIdle
    /\ ArrayIdle
    /\ DynIdle
    /\ SchemaIdle
    /\ PrimIdle

memFrame == <<rec, step, enc, wire, dec, gil, arr, resp, fds, call, sch, prim>>

(* record.decode(buffer) *)
MemDecode ==
    /\ mem.pc # "freed"
    /\ \E fail \in 1..(Len(mem.type) + 1) :
          \E nulls \in SUBSET {i \in DOMAIN mem.type : mem.type[i].is_nullable} :
             LET Result(d) ==
                     mem' = [d.m EXCEPT !.pc = IF d.ok THEN "decoded" ELSE "decode_failed"]
             IN  Result(decode_pointers(mem, fail, nulls))
    /\ UNCHANGED memFrame

(* record[index]; the caller keeps the reference it is given or drops *)
(* it at once                                                          *)
MemGet ==
    /\ mem.pc # "freed"
    /\ \E index \in DOMAIN mem.type :
          \E made \in BOOLEAN :
             \E keep \in BOOLEAN :
                LET Kept(m, v) ==
                        IF keep /\ v.k = "object" /\ v.id \notin m.held
                        THEN [Py_INCREF(m, v) EXCEPT !.held = @ \cup {v.id}]
                        ELSE m
                    Result(g) ==
                        mem' = [(IF g.ok THEN Kept(g.m, g.m.values[index]) ELSE g.m)
                                EXCEPT !.pc = IF g.ok THEN "get" ELSE "get_failed"]
                IN  Result(get_pointers(mem, index, made))
    /\ UNCHANGED memFrame

(* record[index] = value, del record[index]: value is a deletion,      *)
(* None, an object that cannot be converted, an object the caller      *)
(* holds already (returned as it is with one more reference) or one    *)
(* made for the call, which the caller keeps or drops                  *)
MemSet ==
    /\ mem.pc # "freed"
    /\ \E index \in DOMAIN mem.type :
          LET Result(s) ==
                  mem' = [s.m EXCEPT !.pc = IF s.ok THEN "set" ELSE "set_failed"]
              o == NextObject(mem)
          IN  \/ \E value \in {"delete", "None"} :
                    Result(set_value_pointers(mem, index, value, 0))
              \/ Result(set_value_pointers(mem, index, "object", 0))
              \/ \E h \in mem.held :
                    Result(set_value_pointers(Py_INCREF(mem, Inside(h)), index, "object", h))
              \/ /\ o # 0
                 /\ \E keep \in BOOLEAN :
                       Result(set_value_pointers(
                                  IF keep THEN [mem EXCEPT !.refs[o] = 2, !.held = @ \cup {o}]
                                  ELSE [mem EXCEPT !.refs[o] = 1],
                                  index, "object", o))
    /\ UNCHANGED memFrame

(* the caller drops a reference it holds *)
MemDrop ==
    /\ \E o \in mem.held :
          mem' = [Py_DECREF(mem, Inside(o)) EXCEPT !.held = @ \ {o}, !.pc = "drop"]
    /\ UNCHANGED memFrame

(* Record_dealloc: clears every column *)
MemDealloc ==
    /\ mem.pc # "freed"
    /\ mem' = [clear_all_pointers(mem, 1) EXCEPT !.pc = "freed"]
    /\ UNCHANGED memFrame

MemNext ==
    \/ MemDecode
    \/ MemGet
    \/ MemSet
    \/ MemDrop
    \/ MemDealloc

MemSpec == MemInit /\ [][MemNext]_vars

(* C30: across decode, get, set, delete, failed decode and re-decode   *)
(* of a record, the external buffer of each variable-length cell has   *)
(* exactly one owner at every moment, the cell itself or the cached    *)
(* host value, and is freed exactly once, never while the cell still   *)
(* points at it                                                        *)
C30_SingleOwner ==
    mem.pc # "idle" =>
        /\ ~mem.fault
        /\ \A i \in DOMAIN mem.type :
              LET data == mem.column_values[i].data
                  value == mem.values[i]
              IN  /\ data.k = "block" => (data.id \in mem.blocks /\ value = NullPtr)
                  /\ data.k = "object" => (mem.refs[data.id] > 0 /\ value = data)
                  /\ value.k = "object" => mem.refs[value.id] > 0
                  /\ \A j \in DOMAIN mem.type :
                        (j # i /\ data.k = "block") => mem.column_values[j].data # data
        /\ \A b \in mem.blocks :
              \E i \in DOMAIN mem.type : mem.column_values[i].data = Block(b)
        /\ mem.pc = "freed" => mem.blocks = {}

(* after a decode one cell was materialized and its buffer handed to   *)
(* the host value while another cell still owns its block              *)
C30_OwnershipMoved ==
    /\ mem.pc = "get"
    /\ \E i \in DOMAIN mem.type : mem.column_values[i].data.k = "object"
    /\ \E j \in DOMAIN mem.type : mem.column_values[j].data.k = "block"

====
